---- MODULE Spec2Model ----
(***************************************************************************)
(* ShowAllFiles (kamaranl/showallfiles): the event-coordination core.      *)
(*                                                                         *)
(* Threads of the program: the main goroutine (Application.onReady: the    *)
(* startup sequence, then the tray-menu select loop), the hotkey goroutine,*)
(* the registry watcher goroutine (Library.WatchRegistryKey), the message  *)
(* loop goroutines (Library.WatchMessageLoop) and the delayed goroutines   *)
(* that Library.winEventProc starts.  The environment edits the registry   *)
(* value, opens and closes windows, moves the focus and makes OS calls     *)
(* fail.                                                                   *)
(*                                                                         *)
(* Registry change notification is modelled with the kernel's behaviour    *)
(* for one key handle: a registration is one-shot, and a change that       *)
(* happens after the first registration while none is outstanding is       *)
(* remembered as one pending flag that completes the next registration.    *)
(***************************************************************************)
EXTENDS Integers, Sequences, FiniteSets, Bags, TLC

\* ------------------------------------------------------------------ bounds
MaxToggles == 2      \* hotkey presses plus tray-menu clicks in one run
MaxEdits == 2        \* external writes of the registry value in one run
MaxFocus == 2        \* foreground events the window system raises in one run
MaxFail == 1         \* OS calls that fail in one run
MaxLoops == 2        \* message-loop goroutines alive at one time
MaxRegVal == 2       \* the registry value ranges over 0..MaxRegVal
MaxBurst == 3        \* external writes in one run of the watcher on its own
MaxStoreThreads == 2 \* goroutines calling the state package at one time
MaxStoreVal == 1     \* values stored by the state package range over 0..MaxStoreVal
MaxWins == 3         \* top-level windows one EnumWindows call lists

\* ------------------------------------------------------- program constants
statusVisible == 1
statusHidden == 2

RegVals == 0..MaxRegVal
LoopIds == 1..MaxLoops
Togglers == {"main", "hotkey"}
Threads == {"main", "hotkey", "watcher"}

\* ------------------------------------------------------------ state store
Keys == {"status_hidden", "menu_toggle", "hook_winEvent", "threadId_winEvent",
         "msgbox_about", "msgbox_fatalerror"}
Types == {"uint64", "MenuItem", "Handle", "uint32", "bool"}
Absent == [typ |-> "none", val |-> 0]
EmptyData == [k \in Keys |-> Absent]

\* the zero value of every modelled type is written 0
Zero(T) == 0

\* a Get that skips the type assertion
GetUntyped(d, T, key) ==
    IF d[key].typ = "none" THEN [value |-> Zero(T), ok |-> FALSE]
    ELSE [value |-> d[key].val, ok |-> TRUE]

\* state.Get[T](key) on the map d
Get(d, T, key) ==
    IF d[key].typ = "none" THEN [value |-> Zero(T), ok |-> FALSE]
    ELSE IF d[key].typ = T THEN [value |-> d[key].val, ok |-> TRUE]
    ELSE [value |-> Zero(T), ok |-> FALSE]

\* a Set that keeps the entry a key already has
SetOnce(d, T, key, value) ==
    IF d[key].typ = "none" THEN [d EXCEPT ![key] = [typ |-> T, val |-> value]]
    ELSE d

\* state.Set[T](key, value)
Set(d, T, key, value) == [d EXCEPT ![key] = [typ |-> T, val |-> value]]

\* a Delete that removes nothing
DeleteKeep(d, key) == d

\* state.Delete(key)
Delete(d, key) == [d EXCEPT ![key] = Absent]

\* state.Clear()
Clear(d) == EmptyData

\* the goroutines that call the state package, and what they call it with
StoreThreads == 1..MaxStoreThreads
StoreKeys == {"status_hidden", "menu_toggle"}
StoreTypes == {"uint64", "MenuItem"}
StoreVals == 0..MaxStoreVal

StoreCalls ==
    [name : {"get"}, key : StoreKeys, typ : StoreTypes, val : {0}]
    \cup [name : {"set"}, key : StoreKeys, typ : StoreTypes, val : StoreVals]
    \cup [name : {"delete"}, key : StoreKeys, typ : {"none"}, val : {0}]
    \cup [name : {"clear"}, key : {"none"}, typ : {"none"}, val : {0}]

NoCall == [name |-> "none", key |-> "none", typ |-> "none", val |-> 0]
NoRet == [value |-> 0, ok |-> FALSE]
Rets == [value : StoreVals, ok : BOOLEAN]

\* a state package in which every function takes the read lock
LockKindShared(name) == "R"

\* the side of state.mu a function of the package takes
LockKind(name) == IF name = "get" THEN "R" ELSE "W"

\* the map after the body of the call c
Apply(d, c) ==
    IF c.name = "set" THEN Set(d, c.typ, c.key, c.val)
    ELSE IF c.name = "delete" THEN Delete(d, c.key)
    ELSE IF c.name = "clear" THEN Clear(d)
    ELSE d

\* ------------------------------------------------------- window identity
Upper == <<"A","B","C","D","E","F","G","H","I","J","K","L","M",
           "N","O","P","Q","R","S","T","U","V","W","X","Y","Z">>
Lower == <<"a","b","c","d","e","f","g","h","i","j","k","l","m",
           "n","o","p","q","r","s","t","u","v","w","x","y","z">>

Fold(c) == IF \E i \in 1..Len(Upper) : Upper[i] = c
           THEN Lower[CHOOSE i \in 1..Len(Upper) : Upper[i] = c]
           ELSE c

\* strings.EqualFold on sequences of characters
EqualFold(s, t) ==
    /\ Len(s) = Len(t)
    /\ \A i \in 1..Len(s) : Fold(s[i]) = Fold(t[i])

Sep == "\\"
IsSep(c) == c = "\\" \/ c = "/"

RECURSIVE Collapse(_)
Collapse(p) ==
    IF Len(p) < 2 THEN p
    ELSE IF p[1] = Sep /\ p[2] = Sep THEN Collapse(Tail(p))
    ELSE <<p[1]>> \o Collapse(Tail(p))

StripTrailing(p) ==
    IF Len(p) > 3 /\ p[Len(p)] = Sep THEN SubSeq(p, 1, Len(p) - 1) ELSE p

\* filepath.Clean on Windows for paths without "." and ".." elements:
\* "/" becomes "\", runs of separators collapse, a trailing separator goes
Clean(p) ==
    StripTrailing(Collapse([i \in 1..Len(p) |-> IF IsSep(p[i]) THEN Sep ELSE p[i]]))

\* filepath.Join of two elements
Join(a, b) == Clean(a \o <<Sep>> \o b)

CabinetWClass == <<"C","a","b","i","n","e","t","W","C","l","a","s","s">>
explorerExe == <<"e","x","p","l","o","r","e","r",".","e","x","e">>
SystemRoot == <<"C",":","\\","W","I","N","D","O","W","S">>

\* The windows of the desktop: what the OS answers about each handle.
HWNDs == {1, 2}
\* with a second File Explorer window
FocusWins == {1, 2, 3}
WinInfo(hwnd) ==
    IF hwnd \in {1, 3}
    THEN [classErr |-> FALSE, className |-> CabinetWClass,
          pidErr |-> FALSE, openErr |-> FALSE, queryErr |-> FALSE,
          exeName |-> <<"C",":","\\","W","i","n","d","o","w","s","\\",
                        "e","x","p","l","o","r","e","r",".","e","x","e">>]
    ELSE [classErr |-> FALSE, className |-> <<"N","o","t","e","p","a","d">>,
          pidErr |-> FALSE, openErr |-> FALSE, queryErr |-> FALSE,
          exeName |-> <<"C",":","\\","W","i","n","d","o","w","s","\\",
                        "n","o","t","e","p","a","d",".","e","x","e">>]

\* an IsFileExplorer that compares the class name with ==
IsFileExplorerExact(w) ==
    IF w.classErr THEN FALSE
    ELSE IF w.className # CabinetWClass THEN FALSE
    ELSE IF w.pidErr THEN FALSE
    ELSE IF w.openErr THEN FALSE
    ELSE IF w.queryErr THEN FALSE
    ELSE EqualFold(Clean(w.exeName), Join(SystemRoot, explorerExe))

\* Library.IsFileExplorer on the answers w of the OS
IsFileExplorerInfo(w) ==
    IF w.classErr THEN FALSE
    ELSE IF ~EqualFold(w.className, CabinetWClass) THEN FALSE
    ELSE IF w.pidErr THEN FALSE
    ELSE IF w.openErr THEN FALSE
    ELSE IF w.queryErr THEN FALSE
    ELSE EqualFold(Clean(w.exeName), Join(SystemRoot, explorerExe))

IsFileExplorer(hwnd) == IsFileExplorerInfo(WinInfo(hwnd))

\* ------------------------------------------------------------- registry
\* Library.GetKeyValuePair(closeKey) when the registry holds r: the results
\* the call can have.  key: a usable handle is returned to the caller;
\* open: handles the call leaves open.
GetKeyValuePair(closeKey, r) ==
    { [err |-> "OpenKey", value |-> 0, key |-> FALSE, open |-> 0],
      [err |-> "GetIntegerValue", value |-> 0, key |-> FALSE,
       open |-> IF closeKey THEN 0 ELSE 1],
      [err |-> "none", value |-> r, key |-> TRUE,
       open |-> IF closeKey THEN 0 ELSE 1] }

\* a ToggleHidden that writes back the status it read
NewValueSame(value) == IF value = statusHidden THEN statusHidden ELSE statusVisible

\* a ToggleHidden that always hides
NewValueHidden(value) == statusHidden

\* a ToggleHidden that computes the other status by arithmetic
NewValueFlip(value) == statusVisible + statusHidden - value

\* lines 216-221 of Library.ToggleHidden
NewValue(value) == IF value = statusHidden THEN statusVisible ELSE statusHidden

\* a key that forgets the changes made while no registration is outstanding
NotifiedLost(n) ==
    IF n.armed THEN [n EXCEPT !.armed = FALSE, !.event = TRUE] ELSE n

\* the change-notification state of the watched key after a write of its value
Notified(n) ==
    IF n.armed THEN [n EXCEPT !.armed = FALSE, !.event = TRUE]
    ELSE IF n.block THEN [n EXCEPT !.pending = TRUE]
    ELSE n

\* windows.RegNotifyChangeKeyValue succeeding on the watched key
Registered(n) ==
    IF n.pending THEN [n EXCEPT !.block = TRUE, !.pending = FALSE, !.event = TRUE]
    ELSE [n EXCEPT !.block = TRUE, !.armed = TRUE]

HookHandle(g) == g
ThreadId(g) == g

\* Library.RefreshSystray: the tray title after the call, cur before it
RefreshSystray(d, cur) ==
    LET toggle == Get(d, "MenuItem", "menu_toggle")
        hidden == Get(d, "uint64", "status_hidden")
    IN  IF ~toggle.ok THEN cur
        ELSE IF ~hidden.ok THEN cur
        ELSE IF hidden.value = statusHidden THEN "Show" ELSE "Hide"

\* ------------------------------------------------------------------ state
VARIABLES
    running,    \* the process has not exited
    reg,        \* the registry value "Hidden"
    data,       \* package state: the map behind Get/Set/Delete/Clear
    pc,         \* where the main, hotkey and watcher goroutines are
    val,        \* each goroutine's local `value`
    held,       \* registry handles opened by GetKeyValuePair and not closed
    notify,     \* change notification of the watched key and its event
    mu,         \* Library.mu
    loops,      \* where each message-loop goroutine is
    hooks,      \* the message loops whose WinEvent hook is installed
    evq,        \* foreground events queued to each message-loop thread
    quitq,      \* WM_QUIT posted to each message-loop thread
    delayed,    \* the goroutines started by winEventProc
    open,       \* the top-level windows that exist
    tray,       \* the title of the tray toggle item
    used,       \* how much of each bound the run has used
    chain,      \* history: statuses established one after another
    snap,       \* history: chain when a call of ToggleHidden read the value
    clean,      \* history: no other writer since a call of ToggleHidden read
    wake,       \* history: the external edit the watcher has still to read
    seen,       \* history: the external edit the watcher read in this cycle
    cycleSet,   \* history: the watcher stored the status in this cycle
    fired,      \* history: the hook's callback ran for a File Explorer window
    calls,      \* history: the events winEventProc was called with, per message loop
    box,        \* the message boxes that are on the screen
    desk,       \* what the OS answers about each top-level window of an enumeration
    enum,       \* one call of RefreshExplorerWindows: where it is, found, its posts
    logged,     \* the errors written to the log, in order
    owed,       \* history: noted writes of the value minus wakes of the watcher
    win,        \* what the OS answers about the window under test
    verdict,    \* what IsFileExplorer returned for it
    last,       \* history: the last call that touched each key
    rw,         \* state.mu: who holds the sync.RWMutex
    spc         \* the goroutines calling the state package: where each is

vars == <<running, reg, data, pc, val, held, notify, mu, loops, hooks, evq,
          quitq, delayed, open, tray, used, chain, snap, clean, wake,
          seen, cycleSet, fired, calls, logged, owed, win, verdict, last, rw, spc,
          box, desk, enum>>

hookVars == <<loops, hooks, evq, quitq, delayed, fired>>
uiVars == <<box>>
enumVars == <<desk, enum>>
focusVars == <<calls>>
identVars == <<win, verdict>>
storeVars == <<last, rw, spc>>
histVars == <<chain, snap, clean, wake, seen, cycleSet>>

NoWake == 0 - 1
LastTwo(s) == IF Len(s) <= 2 THEN s ELSE SubSeq(s, Len(s) - 1, Len(s))
Home(t) == IF t = "main" THEN "loop" ELSE "idle"
Other(t) == IF t = "main" THEN "hotkey" ELSE "main"
InToggle(t) == pc[t] \in {"t_write", "t_set"}
CanFail == used.fails < MaxFail
Failed == [used EXCEPT !.fails = @ + 1]
Status == Get(data, "uint64", "status_hidden")

InitProgram ==
    /\ running = TRUE
    /\ data = EmptyData
    /\ pc = [t \in Threads |-> IF t = "main" THEN "m_register" ELSE "off"]
    /\ val = [t \in Threads |-> 0]
    /\ held = [t \in Threads |-> 0]
    /\ notify = [block |-> FALSE, armed |-> FALSE, pending |-> FALSE, event |-> FALSE]
    /\ mu = "free"
    /\ loops = [g \in LoopIds |-> "free"]
    /\ hooks = {}
    /\ evq = [g \in LoopIds |-> <<>>]
    /\ quitq = [g \in LoopIds |-> FALSE]
    /\ delayed = EmptyBag
    /\ tray = "none"
    /\ used = [toggles |-> 0, edits |-> 0, focus |-> 0, fails |-> 0]
    /\ chain = <<>>
    /\ snap = [t \in Togglers |-> <<>>]
    /\ clean = [t \in Togglers |-> FALSE]
    /\ wake = NoWake
    /\ seen = NoWake
    /\ cycleSet = FALSE
    /\ fired = [g \in LoopIds |-> FALSE]
    /\ calls = [g \in LoopIds |-> <<>>]
    /\ logged = <<>>
    /\ owed = 0
    /\ box = {}

\* no window is under test
NoWindow == [classErr |-> TRUE, className |-> <<>>, pidErr |-> TRUE,
             openErr |-> TRUE, queryErr |-> TRUE, exeName |-> <<>>]
InitIdent == win = NoWindow /\ verdict = "none"

\* nobody is in the state package and no key has been written
InitStore ==
    /\ last = [k \in StoreKeys |-> [name |-> "none", typ |-> "none", val |-> 0]]
    /\ rw = [writer |-> FALSE, readers |-> 0]
    /\ spc = [t \in StoreThreads |-> [pc |-> "idle", call |-> NoCall, ret |-> NoRet]]

\* no enumeration is under way
NoEnum == [at |-> "idle", next |-> 1, found |-> 0, posts |-> <<>>, armed |-> FALSE]
InitEnum == desk = <<>> /\ enum = NoEnum

\* history of a write of the registry value; edit is the value an external
\* edit wrote, NoWake for a write by ToggleHidden
WakeAfter(edit) == IF notify.block THEN edit ELSE NoWake

\* ------------------------------------------------- Application.onReady
\* hk.Register(); log.Fatal exits the process; else the hotkey goroutine starts
MRegister ==
    /\ running /\ pc["main"] = "m_register"
    /\ \/ /\ CanFail
          /\ used' = Failed
          /\ logged' = Append(logged, [who |-> "main", err |-> "Register"])
          /\ running' = FALSE
          /\ pc' = pc
       \/ /\ pc' = [pc EXCEPT !["main"] = "m_read", !["hotkey"] = "idle"]
          /\ UNCHANGED <<running, used, logged>>
    /\ UNCHANGED <<reg, data, val, held, notify, mu, open, tray>>
    /\ UNCHANGED hookVars /\ UNCHANGED histVars
    /\ UNCHANGED <<owed>>
    /\ UNCHANGED identVars /\ UNCHANGED storeVars
    /\ UNCHANGED uiVars /\ UNCHANGED enumVars /\ UNCHANGED focusVars

\* a.Lib.GetKeyValuePair(true); log.Fatal on an error
MRead ==
    /\ running /\ pc["main"] = "m_read"
    /\ \E r \in GetKeyValuePair(TRUE, reg) :
         /\ held' = [held EXCEPT !["main"] = @ + r.open]
         /\ IF r.err = "none"
            THEN /\ val' = [val EXCEPT !["main"] = r.value]
                 /\ pc' = [pc EXCEPT !["main"] = "m_set"]
                 /\ chain' = <<r.value>>
                 /\ UNCHANGED <<running, used, logged>>
            ELSE /\ CanFail
                 /\ used' = Failed
                 /\ logged' = Append(logged, [who |-> "main", err |-> r.err])
                 /\ running' = FALSE
                 /\ UNCHANGED <<val, pc, chain>>
    /\ UNCHANGED <<reg, data, notify, mu, open, tray, snap, clean, wake, seen, cycleSet>>
    /\ UNCHANGED hookVars
    /\ UNCHANGED <<owed>>
    /\ UNCHANGED identVars /\ UNCHANGED storeVars
    /\ UNCHANGED uiVars /\ UNCHANGED enumVars /\ UNCHANGED focusVars

\* state.Set("status_hidden", value)
MSet ==
    /\ running /\ pc["main"] = "m_set"
    /\ data' = Set(data, "uint64", "status_hidden", val["main"])
    /\ pc' = [pc EXCEPT !["main"] = "m_tray"]
    /\ UNCHANGED <<running, reg, val, held, notify, mu, open, tray, used>>
    /\ UNCHANGED hookVars /\ UNCHANGED histVars
    /\ UNCHANGED <<logged, owed>>
    /\ UNCHANGED identVars /\ UNCHANGED storeVars
    /\ UNCHANGED uiVars /\ UNCHANGED enumVars /\ UNCHANGED focusVars

\* state.Set("menu_toggle", ...); RefreshSystray(); WatchRegistryKey()
MTray ==
    /\ running /\ pc["main"] = "m_tray"
    /\ data' = Set(data, "MenuItem", "menu_toggle", 1)
    /\ tray' = RefreshSystray(data', tray)
    /\ pc' = [pc EXCEPT !["main"] = "loop", !["watcher"] = "w_setup"]
    /\ UNCHANGED <<running, reg, val, held, notify, mu, open, used>>
    /\ UNCHANGED hookVars /\ UNCHANGED histVars
    /\ UNCHANGED <<logged, owed>>
    /\ UNCHANGED identVars /\ UNCHANGED storeVars
    /\ UNCHANGED uiVars /\ UNCHANGED enumVars /\ UNCHANGED focusVars

\* ------------------------------------------------- Library.ToggleHidden
\* the key-down or the menu click, then GetKeyValuePair(false)
ToggleRead(t) ==
    /\ running /\ pc[t] = Home(t)
    /\ used.toggles < MaxToggles
    /\ \E r \in GetKeyValuePair(FALSE, reg) :
         /\ held' = [held EXCEPT ![t] = @ + r.open]
         /\ IF r.err = "none"
            THEN /\ val' = [val EXCEPT ![t] = r.value]
                 /\ pc' = [pc EXCEPT ![t] = "t_write"]
                 /\ used' = [used EXCEPT !.toggles = @ + 1]
                 /\ snap' = [u \in Togglers |->
                               IF InToggle(Other(t)) THEN <<>>
                               ELSE IF u = t THEN chain ELSE snap[u]]
                 /\ clean' = [clean EXCEPT ![t] = TRUE]
                 /\ UNCHANGED logged
            ELSE /\ CanFail
                 /\ used' = [used EXCEPT !.toggles = @ + 1, !.fails = @ + 1]
                 /\ logged' = Append(logged, [who |-> t, err |-> r.err])
                 /\ UNCHANGED <<val, pc, snap, clean>>
    /\ UNCHANGED <<running, reg, data, notify, mu, open, tray, chain, wake, seen, cycleSet>>
    /\ UNCHANGED hookVars
    /\ UNCHANGED <<owed>>
    /\ UNCHANGED identVars /\ UNCHANGED storeVars
    /\ UNCHANGED uiVars /\ UNCHANGED enumVars /\ UNCHANGED focusVars

\* a ToggleHidden whose failed write ends the hotkey goroutine
ToggleWriteFatal(t) ==
    /\ running /\ pc[t] = "t_write"
    /\ \/ /\ reg' = NewValue(val[t])
          /\ notify' = Notified(notify)
          /\ wake' = WakeAfter(NoWake)
          /\ pc' = [pc EXCEPT ![t] = "t_set"]
          /\ clean' = [clean EXCEPT ![Other(t)] = FALSE]
          /\ owed' = IF notify.block THEN owed + 1 ELSE owed
          /\ UNCHANGED <<held, used, snap, logged>>
       \/ /\ CanFail
          /\ used' = Failed
          /\ logged' = Append(logged, [who |-> t, err |-> "SetDWordValue"])
          /\ UNCHANGED owed
          /\ held' = [held EXCEPT ![t] = @ - 1]
          /\ pc' = [pc EXCEPT ![t] = IF t = "hotkey" THEN "off" ELSE Home(t)]
          /\ snap' = [snap EXCEPT ![t] = <<>>]
          /\ clean' = [clean EXCEPT ![t] = FALSE]
          /\ UNCHANGED <<reg, notify, wake>>
    /\ UNCHANGED <<running, data, val, mu, open, tray, chain, seen, cycleSet>>
    /\ UNCHANGED hookVars
    /\ UNCHANGED identVars /\ UNCHANGED storeVars
    /\ UNCHANGED uiVars /\ UNCHANGED enumVars /\ UNCHANGED focusVars

\* key.SetDWordValue("Hidden", uint32(newValue)); on an error the deferred Close
ToggleWrite(t) ==
    /\ running /\ pc[t] = "t_write"
    /\ \/ /\ reg' = NewValue(val[t])
          /\ notify' = Notified(notify)
          /\ wake' = WakeAfter(NoWake)
          /\ pc' = [pc EXCEPT ![t] = "t_set"]
          /\ clean' = [clean EXCEPT ![Other(t)] = FALSE]
          /\ owed' = IF notify.block THEN owed + 1 ELSE owed
          /\ UNCHANGED <<held, used, snap, logged>>
       \/ /\ CanFail
          /\ used' = Failed
          /\ logged' = Append(logged, [who |-> t, err |-> "SetDWordValue"])
          /\ UNCHANGED owed
          /\ held' = [held EXCEPT ![t] = @ - 1]
          /\ pc' = [pc EXCEPT ![t] = Home(t)]
          /\ snap' = [snap EXCEPT ![t] = <<>>]
          /\ clean' = [clean EXCEPT ![t] = FALSE]
          /\ UNCHANGED <<reg, notify, wake>>
    /\ UNCHANGED <<running, data, val, mu, open, tray, chain, seen, cycleSet>>
    /\ UNCHANGED hookVars
    /\ UNCHANGED identVars /\ UNCHANGED storeVars
    /\ UNCHANGED uiVars /\ UNCHANGED enumVars /\ UNCHANGED focusVars

\* a ToggleHidden that stores the value it read, not the value it wrote
ToggleSetRead(t) ==
    /\ running /\ pc[t] = "t_set"
    /\ data' = Set(data, "uint64", "status_hidden", val[t])
    /\ held' = [held EXCEPT ![t] = @ - 1]
    /\ pc' = [pc EXCEPT ![t] = Home(t)]
    /\ chain' = IF ~clean[t] \/ InToggle(Other(t)) THEN <<>>
                ELSE LastTwo(snap[t]) \o <<val[t]>>
    /\ snap' = [snap EXCEPT ![t] = <<>>]
    /\ clean' = [clean EXCEPT ![t] = FALSE]
    /\ UNCHANGED <<running, reg, val, notify, mu, open, tray, used, wake, seen, cycleSet>>
    /\ UNCHANGED hookVars
    /\ UNCHANGED <<logged, owed>>
    /\ UNCHANGED identVars /\ UNCHANGED storeVars
    /\ UNCHANGED uiVars /\ UNCHANGED enumVars /\ UNCHANGED focusVars

\* state.Set("status_hidden", newValue), the deferred Close, return
ToggleSet(t) ==
    /\ running /\ pc[t] = "t_set"
    /\ data' = Set(data, "uint64", "status_hidden", NewValue(val[t]))
    /\ held' = [held EXCEPT ![t] = @ - 1]
    /\ pc' = [pc EXCEPT ![t] = Home(t)]
    /\ chain' = IF ~clean[t] \/ InToggle(Other(t)) THEN <<>>
                ELSE LastTwo(snap[t]) \o <<NewValue(val[t])>>
    /\ snap' = [snap EXCEPT ![t] = <<>>]
    /\ clean' = [clean EXCEPT ![t] = FALSE]
    /\ UNCHANGED <<running, reg, val, notify, mu, open, tray, used, wake, seen, cycleSet>>
    /\ UNCHANGED hookVars
    /\ UNCHANGED <<logged, owed>>
    /\ UNCHANGED identVars /\ UNCHANGED storeVars
    /\ UNCHANGED uiVars /\ UNCHANGED enumVars /\ UNCHANGED focusVars

\* ------------------------------------------------------------------ msgbox
\* the state key of the dialog with this title
StateLabel(title) == IF title = "About" THEN "msgbox_about" ELSE "msgbox_fatalerror"

\* msgbox(title, ...): nothing if the dialog is open, else the key is set and a
\* goroutine shows the message box
Msgbox(title) ==
    LET isOpen == Get(data, "bool", StateLabel(title))
    IN  IF isOpen.ok /\ isOpen.value = 1
        THEN UNCHANGED <<data, box>>
        ELSE /\ data' = Set(data, "bool", StateLabel(title), 1)
             /\ box' = box \cup {title}

\* case <-mTopAbout.ClickedCh of the select loop
MAbout ==
    /\ running /\ pc["main"] = "loop"
    /\ Msgbox("About")
    /\ UNCHANGED <<running, reg, pc, val, held, notify, mu, open, tray, used>>
    /\ UNCHANGED hookVars /\ UNCHANGED histVars
    /\ UNCHANGED <<logged, owed>>
    /\ UNCHANGED identVars /\ UNCHANGED storeVars
    /\ UNCHANGED enumVars /\ UNCHANGED focusVars

\* the user closes a message box: the key is cleared, and the process exits
\* if the box was shown with an exit code
BoxClosed(title) ==
    /\ running /\ title \in box
    /\ box' = box \ {title}
    /\ data' = Set(data, "bool", StateLabel(title), 0)
    /\ running' = (title = "About")
    /\ UNCHANGED <<reg, pc, val, held, notify, mu, open, tray, used>>
    /\ UNCHANGED hookVars /\ UNCHANGED histVars
    /\ UNCHANGED <<logged, owed>>
    /\ UNCHANGED identVars /\ UNCHANGED storeVars
    /\ UNCHANGED enumVars /\ UNCHANGED focusVars

\* ------------------------------------------------ Library.WatchRegistryKey
\* the error sent on App.ErrCh is received by the select loop of onReady
WFail(at) ==
    /\ CanFail
    /\ used' = Failed
    /\ pc' = [pc EXCEPT !["watcher"] = at]

\* RegOpenKeyEx and CreateEvent
WSetup ==
    /\ running /\ pc["watcher"] = "w_setup"
    /\ \/ \E at \in {"w_err_open", "w_err_event"} : WFail(at)
       \/ /\ pc' = [pc EXCEPT !["watcher"] = "w_arm"]
          /\ UNCHANGED used
    /\ UNCHANGED <<running, reg, data, val, held, notify, mu, open, tray>>
    /\ UNCHANGED hookVars /\ UNCHANGED histVars
    /\ UNCHANGED <<logged, owed>>
    /\ UNCHANGED identVars /\ UNCHANGED storeVars
    /\ UNCHANGED uiVars /\ UNCHANGED enumVars /\ UNCHANGED focusVars

\* RegNotifyChangeKeyValue at the top of the loop
WArm ==
    /\ running /\ pc["watcher"] = "w_arm"
    /\ \/ /\ WFail("w_err_arm")
          /\ UNCHANGED notify
       \/ /\ notify' = Registered(notify)
          /\ pc' = [pc EXCEPT !["watcher"] = "w_wait"]
          /\ UNCHANGED used
    /\ seen' = NoWake
    /\ cycleSet' = FALSE
    /\ UNCHANGED <<running, reg, data, val, held, mu, open, tray, chain, snap, clean, wake>>
    /\ UNCHANGED hookVars
    /\ UNCHANGED <<logged, owed>>
    /\ UNCHANGED identVars /\ UNCHANGED storeVars
    /\ UNCHANGED uiVars /\ UNCHANGED enumVars /\ UNCHANGED focusVars

\* WaitForSingleObject returns WAIT_OBJECT_0 and resets the event
WWait ==
    /\ running /\ pc["watcher"] = "w_wait"
    /\ notify.event
    /\ notify' = [notify EXCEPT !.event = FALSE]
    /\ owed' = owed - 1
    /\ pc' = [pc EXCEPT !["watcher"] = "w_read"]
    /\ UNCHANGED <<running, reg, data, val, held, mu, open, tray, used>>
    /\ UNCHANGED hookVars /\ UNCHANGED histVars
    /\ UNCHANGED <<logged>>
    /\ UNCHANGED identVars /\ UNCHANGED storeVars
    /\ UNCHANGED uiVars /\ UNCHANGED enumVars /\ UNCHANGED focusVars

\* WaitForSingleObject returns another value: back to the top of the loop
WWaitFailed ==
    /\ running /\ pc["watcher"] = "w_wait"
    /\ CanFail
    /\ used' = Failed
    /\ pc' = [pc EXCEPT !["watcher"] = "w_arm"]
    /\ UNCHANGED <<running, reg, data, val, held, notify, mu, open, tray>>
    /\ UNCHANGED hookVars /\ UNCHANGED histVars
    /\ UNCHANGED <<logged, owed>>
    /\ UNCHANGED identVars /\ UNCHANGED storeVars
    /\ UNCHANGED uiVars /\ UNCHANGED enumVars /\ UNCHANGED focusVars

\* _, value, err := l.GetKeyValuePair(false): the key is dropped
WRead ==
    /\ running /\ pc["watcher"] = "w_read"
    /\ \E r \in GetKeyValuePair(FALSE, reg) :
         /\ held' = [held EXCEPT !["watcher"] = @ + r.open]
         /\ IF r.err = "none"
            THEN /\ val' = [val EXCEPT !["watcher"] = r.value]
                 /\ pc' = [pc EXCEPT !["watcher"] = "w_set"]
                 /\ seen' = wake
                 /\ wake' = NoWake
                 /\ UNCHANGED used
            ELSE /\ WFail("w_err_read")
                 /\ UNCHANGED <<val, seen, wake>>
    /\ UNCHANGED <<running, reg, data, notify, mu, open, tray>>
    /\ UNCHANGED <<chain, snap, clean, cycleSet>>
    /\ UNCHANGED hookVars
    /\ UNCHANGED <<logged, owed>>
    /\ UNCHANGED identVars /\ UNCHANGED storeVars
    /\ UNCHANGED uiVars /\ UNCHANGED enumVars /\ UNCHANGED focusVars

\* a watcher that stores the toggled value instead of the value it read
WSetToggled ==
    /\ running /\ pc["watcher"] = "w_set"
    /\ data' = Set(data, "uint64", "status_hidden", NewValue(val["watcher"]))
    /\ pc' = [pc EXCEPT !["watcher"] = "w_tray"]
    /\ cycleSet' = TRUE
    /\ UNCHANGED <<running, reg, val, held, notify, mu, open, tray, used>>
    /\ UNCHANGED <<chain, snap, clean, wake, seen>>
    /\ UNCHANGED hookVars
    /\ UNCHANGED <<logged, owed>>
    /\ UNCHANGED identVars /\ UNCHANGED storeVars
    /\ UNCHANGED uiVars /\ UNCHANGED enumVars /\ UNCHANGED focusVars

\* state.Set("status_hidden", value)
WSet ==
    /\ running /\ pc["watcher"] = "w_set"
    /\ data' = Set(data, "uint64", "status_hidden", val["watcher"])
    /\ pc' = [pc EXCEPT !["watcher"] = "w_tray"]
    /\ cycleSet' = TRUE
    /\ UNCHANGED <<running, reg, val, held, notify, mu, open, tray, used>>
    /\ UNCHANGED <<chain, snap, clean, wake, seen>>
    /\ UNCHANGED hookVars
    /\ UNCHANGED <<logged, owed>>
    /\ UNCHANGED identVars /\ UNCHANGED storeVars
    /\ UNCHANGED uiVars /\ UNCHANGED enumVars /\ UNCHANGED focusVars

\* a RefreshSystray that stores the status it shows
WTrayStores ==
    /\ running /\ pc["watcher"] = "w_tray"
    /\ tray' = RefreshSystray(data, tray)
    /\ data' = Set(data, "uint64", "status_hidden",
                   IF tray' = "Show" THEN statusHidden ELSE statusVisible)
    /\ pc' = [pc EXCEPT !["watcher"] = "w_enum"]
    /\ UNCHANGED <<running, reg, val, held, notify, mu, open, used>>
    /\ UNCHANGED hookVars /\ UNCHANGED histVars
    /\ UNCHANGED <<logged, owed>>
    /\ UNCHANGED identVars /\ UNCHANGED storeVars
    /\ UNCHANGED uiVars /\ UNCHANGED enumVars /\ UNCHANGED focusVars

\* l.RefreshSystray()
WTray ==
    /\ running /\ pc["watcher"] = "w_tray"
    /\ tray' = RefreshSystray(data, tray)
    /\ pc' = [pc EXCEPT !["watcher"] = "w_enum"]
    /\ UNCHANGED <<running, reg, data, val, held, notify, mu, open, used>>
    /\ UNCHANGED hookVars /\ UNCHANGED histVars
    /\ UNCHANGED <<logged, owed>>
    /\ UNCHANGED identVars /\ UNCHANGED storeVars
    /\ UNCHANGED uiVars /\ UNCHANGED enumVars /\ UNCHANGED focusVars

\* ------------------------------------------ Library.RefreshExplorerWindows
\* enumWindowsProc over the windows that exist: found after the enumeration
Found(windows) == IF \E h \in windows : IsFileExplorer(h) THEN 1 ELSE 0

\* l.mu.Lock(); EnumWindows fails: the warning, return, the deferred Unlock
WEnumFail ==
    /\ running /\ pc["watcher"] = "w_enum"
    /\ mu = "free"
    /\ CanFail
    /\ used' = Failed
    /\ pc' = [pc EXCEPT !["watcher"] = "w_arm"]
    /\ UNCHANGED <<running, reg, data, val, held, notify, mu, open, tray>>
    /\ UNCHANGED hookVars /\ UNCHANGED histVars
    /\ UNCHANGED <<logged, owed>>
    /\ UNCHANGED identVars /\ UNCHANGED storeVars
    /\ UNCHANGED uiVars /\ UNCHANGED enumVars /\ UNCHANGED focusVars

\* l.mu.Lock(); EnumWindows posts a refresh to a File Explorer window:
\* found # 0, the deferred Unlock
WEnumFound ==
    /\ running /\ pc["watcher"] = "w_enum"
    /\ mu = "free"
    /\ Found(open) # 0
    /\ pc' = [pc EXCEPT !["watcher"] = "w_arm"]
    /\ UNCHANGED <<running, reg, data, val, held, notify, mu, open, tray, used>>
    /\ UNCHANGED hookVars /\ UNCHANGED histVars
    /\ UNCHANGED <<logged, owed>>
    /\ UNCHANGED identVars /\ UNCHANGED storeVars
    /\ UNCHANGED uiVars /\ UNCHANGED enumVars /\ UNCHANGED focusVars

\* l.mu.Lock(); EnumWindows finds no File Explorer window: found = 0
WEnumNone ==
    /\ running /\ pc["watcher"] = "w_enum"
    /\ mu = "free"
    /\ Found(open) = 0
    /\ mu' = "watcher"
    /\ pc' = [pc EXCEPT !["watcher"] = "w_check"]
    /\ UNCHANGED <<running, reg, data, val, held, notify, open, tray, used>>
    /\ UNCHANGED hookVars /\ UNCHANGED histVars
    /\ UNCHANGED <<logged, owed>>
    /\ UNCHANGED identVars /\ UNCHANGED storeVars
    /\ UNCHANGED uiVars /\ UNCHANGED enumVars /\ UNCHANGED focusVars

\* lines 168-171: the hook is already set
HookIsSet(d) ==
    LET hook == Get(d, "Handle", "hook_winEvent")
    IN  hook.ok /\ hook.value # 0

FreeLoops == {g \in LoopIds : loops[g] = "free"}
NextLoop == CHOOSE g \in FreeLoops : \A h \in FreeLoops : g <= h

\* a RefreshExplorerWindows that runs the message loop itself: it keeps
\* l.mu and does not return while the hook is installed
WCheckBlocking ==
    /\ running /\ pc["watcher"] = "w_check"
    /\ mu = "watcher"
    /\ IF HookIsSet(data)
       THEN /\ UNCHANGED loops
            /\ mu' = "free"
            /\ pc' = [pc EXCEPT !["watcher"] = "w_arm"]
       ELSE /\ FreeLoops # {}
            /\ loops' = [loops EXCEPT ![NextLoop] = "l_install"]
            /\ mu' = mu
            /\ pc' = [pc EXCEPT !["watcher"] = "w_loop"]
    /\ UNCHANGED <<running, reg, data, val, held, notify, open, tray, used>>
    /\ UNCHANGED <<hooks, evq, quitq, delayed, fired>>
    /\ UNCHANGED histVars
    /\ UNCHANGED <<logged, owed>>
    /\ UNCHANGED identVars /\ UNCHANGED storeVars
    /\ UNCHANGED uiVars /\ UNCHANGED enumVars /\ UNCHANGED focusVars

\* found = 0: return if the hook is set, else l.WatchMessageLoop() starts a
\* goroutine; the deferred Unlock
WCheck ==
    /\ running /\ pc["watcher"] = "w_check"
    /\ mu = "watcher"
    /\ IF HookIsSet(data)
       THEN UNCHANGED loops
       ELSE /\ FreeLoops # {}
            /\ loops' = [loops EXCEPT ![NextLoop] = "l_install"]
    /\ mu' = "free"
    /\ pc' = [pc EXCEPT !["watcher"] = "w_arm"]
    /\ UNCHANGED <<running, reg, data, val, held, notify, open, tray, used>>
    /\ UNCHANGED <<hooks, evq, quitq, delayed, fired>>
    /\ UNCHANGED histVars
    /\ UNCHANGED <<logged, owed>>
    /\ UNCHANGED identVars /\ UNCHANGED storeVars
    /\ UNCHANGED uiVars /\ UNCHANGED enumVars /\ UNCHANGED focusVars

\* the goroutine is blocked in one of its four `errCh <- fmt.Errorf(...)`
WErrPcs == {"w_err_open", "w_err_event", "w_err_arm", "w_err_read"}

\* the call the error message names
ErrMsg(at) ==
    IF at = "w_err_open" THEN "RegOpenKeyEx"
    ELSE IF at = "w_err_event" THEN "CreateEvent"
    ELSE IF at = "w_err_arm" THEN "RegNotifyChangeKeyValue"
    ELSE "WaitForSingleObject"

\* a watcher that starts over after its error was received
WErrRestart ==
    /\ running /\ pc["watcher"] \in WErrPcs
    /\ pc["main"] = "loop"
    /\ logged' = Append(logged, [who |-> "watcher", err |-> ErrMsg(pc["watcher"])])
    /\ pc' = [pc EXCEPT !["watcher"] = "w_setup"]
    /\ UNCHANGED <<running, reg, data, val, held, notify, mu, open, tray, used>>
    /\ UNCHANGED hookVars /\ UNCHANGED histVars
    /\ UNCHANGED <<owed>>
    /\ UNCHANGED identVars /\ UNCHANGED storeVars
    /\ UNCHANGED uiVars /\ UNCHANGED enumVars /\ UNCHANGED focusVars

\* errCh <- err is taken by `case err := <-a.ErrCh`, which logs it; the
\* goroutine returns
WErr ==
    /\ running /\ pc["watcher"] \in WErrPcs
    /\ pc["main"] = "loop"
    /\ logged' = Append(logged, [who |-> "watcher", err |-> ErrMsg(pc["watcher"])])
    /\ pc' = [pc EXCEPT !["watcher"] = "done"]
    /\ UNCHANGED <<running, reg, data, val, held, notify, mu, open, tray, used>>
    /\ UNCHANGED hookVars /\ UNCHANGED histVars
    /\ UNCHANGED <<owed>>
    /\ UNCHANGED identVars /\ UNCHANGED storeVars
    /\ UNCHANGED uiVars /\ UNCHANGED enumVars /\ UNCHANGED focusVars

\* ------------------------------------------------ Library.WatchMessageLoop
\* SetWinEventHook
LInstall(g) ==
    /\ running /\ loops[g] = "l_install"
    /\ \/ /\ CanFail
          /\ used' = Failed
          /\ loops' = [loops EXCEPT ![g] = "l_err_install"]
          /\ UNCHANGED hooks
       \/ /\ hooks' = hooks \cup {g}
          /\ loops' = [loops EXCEPT ![g] = "l_sethook"]
          /\ UNCHANGED used
    /\ UNCHANGED <<running, reg, data, pc, val, held, notify, mu, open, tray>>
    /\ UNCHANGED <<evq, quitq, delayed, fired>>
    /\ UNCHANGED histVars
    /\ UNCHANGED <<logged, owed>>
    /\ UNCHANGED identVars /\ UNCHANGED storeVars
    /\ UNCHANGED uiVars /\ UNCHANGED enumVars /\ UNCHANGED focusVars

\* state.Set("hook_winEvent", hook)
LSetHook(g) ==
    /\ running /\ loops[g] = "l_sethook"
    /\ data' = Set(data, "Handle", "hook_winEvent", HookHandle(g))
    /\ loops' = [loops EXCEPT ![g] = "l_settid"]
    /\ UNCHANGED <<running, reg, pc, val, held, notify, mu, open, tray, used>>
    /\ UNCHANGED <<hooks, evq, quitq, delayed, fired>>
    /\ UNCHANGED histVars
    /\ UNCHANGED <<logged, owed>>
    /\ UNCHANGED identVars /\ UNCHANGED storeVars
    /\ UNCHANGED uiVars /\ UNCHANGED enumVars /\ UNCHANGED focusVars

\* state.Set("threadId_winEvent", windows.GetCurrentThreadId())
LSetTid(g) ==
    /\ running /\ loops[g] = "l_settid"
    /\ data' = Set(data, "uint32", "threadId_winEvent", ThreadId(g))
    /\ loops' = [loops EXCEPT ![g] = "l_getmsg"]
    /\ UNCHANGED <<running, reg, pc, val, held, notify, mu, open, tray, used>>
    /\ UNCHANGED <<hooks, evq, quitq, delayed, fired>>
    /\ UNCHANGED histVars
    /\ UNCHANGED <<logged, owed>>
    /\ UNCHANGED identVars /\ UNCHANGED storeVars
    /\ UNCHANGED uiVars /\ UNCHANGED enumVars /\ UNCHANGED focusVars

\* a winEventProc without the test of objectId
LCallbackAnyObject(g) ==
    /\ running /\ loops[g] = "l_getmsg"
    /\ evq[g] # <<>>
    /\ LET ev == Head(evq[g])
       IN  /\ evq' = [evq EXCEPT ![g] = Tail(@)]
           /\ calls' = [calls EXCEPT ![g] = Append(@, ev)]
           /\ IF IsFileExplorer(ev.hwnd)
              THEN /\ delayed' = delayed (+) SetToBag({[hwnd |-> ev.hwnd, at |-> "sleep"]})
                   /\ fired' = [fired EXCEPT ![g] = TRUE]
              ELSE UNCHANGED <<delayed, fired>>
    /\ UNCHANGED <<running, reg, data, pc, val, held, notify, mu, open, tray, used>>
    /\ UNCHANGED <<loops, hooks, quitq>>
    /\ UNCHANGED histVars
    /\ UNCHANGED <<logged, owed>>
    /\ UNCHANGED identVars /\ UNCHANGED storeVars
    /\ UNCHANGED uiVars /\ UNCHANGED enumVars

\* Library.winEventProc, called inside GetMessage for a queued event
LCallback(g) ==
    /\ running /\ loops[g] = "l_getmsg"
    /\ evq[g] # <<>>
    /\ LET ev == Head(evq[g])
       IN  /\ evq' = [evq EXCEPT ![g] = Tail(@)]
           /\ calls' = [calls EXCEPT ![g] = Append(@, ev)]
           /\ IF ev.objectId # 0
              THEN UNCHANGED <<delayed, fired>>
              ELSE IF IsFileExplorer(ev.hwnd)
              THEN /\ delayed' = delayed (+) SetToBag({[hwnd |-> ev.hwnd, at |-> "sleep"]})
                   /\ fired' = [fired EXCEPT ![g] = TRUE]
              ELSE UNCHANGED <<delayed, fired>>
    /\ UNCHANGED <<running, reg, data, pc, val, held, notify, mu, open, tray, used>>
    /\ UNCHANGED <<loops, hooks, quitq>>
    /\ UNCHANGED histVars
    /\ UNCHANGED <<logged, owed>>
    /\ UNCHANGED identVars /\ UNCHANGED storeVars
    /\ UNCHANGED uiVars /\ UNCHANGED enumVars

\* GetMessage returns 0: WM_QUIT
LQuit(g) ==
    /\ running /\ loops[g] = "l_getmsg"
    /\ quitq[g]
    /\ loops' = [loops EXCEPT ![g] = "l_unhook"]
    /\ UNCHANGED <<running, reg, data, pc, val, held, notify, mu, open, tray, used>>
    /\ UNCHANGED <<hooks, evq, quitq, delayed, fired>>
    /\ UNCHANGED histVars
    /\ UNCHANGED <<logged, owed>>
    /\ UNCHANGED identVars /\ UNCHANGED storeVars
    /\ UNCHANGED uiVars /\ UNCHANGED enumVars /\ UNCHANGED focusVars

\* GetMessage fails
LGetMessageFail(g) ==
    /\ running /\ loops[g] = "l_getmsg"
    /\ CanFail
    /\ used' = Failed
    /\ loops' = [loops EXCEPT ![g] = "l_err_getmsg"]
    /\ UNCHANGED <<running, reg, data, pc, val, held, notify, mu, open, tray>>
    /\ UNCHANGED <<hooks, evq, quitq, delayed, fired>>
    /\ UNCHANGED histVars
    /\ UNCHANGED <<logged, owed>>
    /\ UNCHANGED identVars /\ UNCHANGED storeVars
    /\ UNCHANGED uiVars /\ UNCHANGED enumVars /\ UNCHANGED focusVars

\* a message loop that returns after its error was received, without the
\* cleanup that follows the loop
LErrNoCleanup(g) ==
    /\ running /\ loops[g] \in {"l_err_install", "l_err_getmsg"}
    /\ pc["main"] = "loop"
    /\ logged' = Append(logged, [who |-> "loop",
                   err |-> IF loops[g] = "l_err_install" THEN "SetWinEventHook"
                           ELSE "GetMessage"])
    /\ loops' = [loops EXCEPT ![g] = "free"]
    /\ UNCHANGED <<running, reg, data, pc, val, held, notify, mu, open, tray, used>>
    /\ UNCHANGED <<hooks, evq, quitq, delayed, fired>>
    /\ UNCHANGED histVars
    /\ UNCHANGED <<owed>>
    /\ UNCHANGED identVars /\ UNCHANGED storeVars
    /\ UNCHANGED uiVars /\ UNCHANGED enumVars /\ UNCHANGED focusVars

\* a message loop that goes on after a failed SetWinEventHook
LErrNoReturn(g) ==
    /\ running /\ loops[g] \in {"l_err_install", "l_err_getmsg"}
    /\ pc["main"] = "loop"
    /\ logged' = Append(logged, [who |-> "loop",
                   err |-> IF loops[g] = "l_err_install" THEN "SetWinEventHook"
                           ELSE "GetMessage"])
    /\ loops' = [loops EXCEPT ![g] = IF @ = "l_err_install" THEN "l_sethook" ELSE "l_unhook"]
    /\ UNCHANGED <<running, reg, data, pc, val, held, notify, mu, open, tray, used>>
    /\ UNCHANGED <<hooks, evq, quitq, delayed, fired>>
    /\ UNCHANGED histVars
    /\ UNCHANGED <<owed>>
    /\ UNCHANGED identVars /\ UNCHANGED storeVars
    /\ UNCHANGED uiVars /\ UNCHANGED enumVars /\ UNCHANGED focusVars

\* the goroutine's errCh <- err is taken by the select loop of onReady
LErr(g) ==
    /\ running /\ loops[g] \in {"l_err_install", "l_err_getmsg"}
    /\ pc["main"] = "loop"
    /\ logged' = Append(logged, [who |-> "loop",
                   err |-> IF loops[g] = "l_err_install" THEN "SetWinEventHook"
                           ELSE "GetMessage"])
    /\ loops' = [loops EXCEPT ![g] = IF @ = "l_err_install" THEN "free" ELSE "l_unhook"]
    /\ UNCHANGED <<running, reg, data, pc, val, held, notify, mu, open, tray, used>>
    /\ UNCHANGED <<hooks, evq, quitq, delayed, fired>>
    /\ UNCHANGED histVars
    /\ UNCHANGED <<owed>>
    /\ UNCHANGED identVars /\ UNCHANGED storeVars
    /\ UNCHANGED uiVars /\ UNCHANGED enumVars /\ UNCHANGED focusVars

\* winapi.UnhookWinEvent(hook)
LUnhook(g) ==
    /\ running /\ loops[g] = "l_unhook"
    /\ hooks' = hooks \ {g}
    /\ loops' = [loops EXCEPT ![g] = "l_delhook"]
    /\ UNCHANGED <<running, reg, data, pc, val, held, notify, mu, open, tray, used>>
    /\ UNCHANGED <<evq, quitq, delayed, fired>>
    /\ UNCHANGED histVars
    /\ UNCHANGED <<logged, owed>>
    /\ UNCHANGED identVars /\ UNCHANGED storeVars
    /\ UNCHANGED uiVars /\ UNCHANGED enumVars /\ UNCHANGED focusVars

\* state.Delete("hook_winEvent")
LDelHook(g) ==
    /\ running /\ loops[g] = "l_delhook"
    /\ data' = Delete(data, "hook_winEvent")
    /\ loops' = [loops EXCEPT ![g] = "l_deltid"]
    /\ UNCHANGED <<running, reg, pc, val, held, notify, mu, open, tray, used>>
    /\ UNCHANGED <<hooks, evq, quitq, delayed, fired>>
    /\ UNCHANGED histVars
    /\ UNCHANGED <<logged, owed>>
    /\ UNCHANGED identVars /\ UNCHANGED storeVars
    /\ UNCHANGED uiVars /\ UNCHANGED enumVars /\ UNCHANGED focusVars

\* state.Delete("threadId_winEvent"); the goroutine ends
LDelTid(g) ==
    /\ running /\ loops[g] = "l_deltid"
    /\ data' = Delete(data, "threadId_winEvent")
    /\ loops' = [loops EXCEPT ![g] = "free"]
    /\ evq' = [evq EXCEPT ![g] = <<>>]
    /\ quitq' = [quitq EXCEPT ![g] = FALSE]
    /\ fired' = [fired EXCEPT ![g] = FALSE]
    /\ calls' = [calls EXCEPT ![g] = <<>>]
    /\ UNCHANGED <<running, reg, pc, val, held, notify, mu, open, tray, used>>
    /\ UNCHANGED <<hooks, delayed>>
    /\ UNCHANGED histVars
    /\ UNCHANGED <<logged, owed>>
    /\ UNCHANGED identVars /\ UNCHANGED storeVars
    /\ UNCHANGED uiVars /\ UNCHANGED enumVars

\* ------------------------------------- the goroutine of Library.winEventProc
\* time.Sleep, then l.PostRefreshMessage(hwnd)
DPostRefresh(d) ==
    /\ running /\ BagIn(d, delayed) /\ d.at = "sleep"
    /\ delayed' = (delayed (-) SetToBag({d})) (+) SetToBag({[d EXCEPT !.at = "posted"]})
    /\ UNCHANGED <<running, reg, data, pc, val, held, notify, mu, open, tray, used>>
    /\ UNCHANGED <<loops, hooks, evq, quitq, fired>>
    /\ UNCHANGED histVars
    /\ UNCHANGED <<logged, owed>>
    /\ UNCHANGED identVars /\ UNCHANGED storeVars
    /\ UNCHANGED uiVars /\ UNCHANGED enumVars /\ UNCHANGED focusVars

\* a goroutine that posts WM_QUIT before it has posted the refresh
DPostQuitEarly(d) ==
    /\ running /\ BagIn(d, delayed) /\ d.at = "sleep"
    /\ delayed' = delayed (-) SetToBag({d})
    /\ LET tID == Get(data, "uint32", "threadId_winEvent")
       IN  IF tID.ok /\ tID.value # 0 /\ tID.value \in LoopIds
              /\ loops[tID.value] # "free"
           THEN quitq' = [quitq EXCEPT ![tID.value] = TRUE]
           ELSE UNCHANGED quitq
    /\ UNCHANGED <<running, reg, data, pc, val, held, notify, mu, open, tray, used>>
    /\ UNCHANGED <<loops, hooks, evq, fired>>
    /\ UNCHANGED histVars
    /\ UNCHANGED <<logged, owed>>
    /\ UNCHANGED identVars /\ UNCHANGED storeVars
    /\ UNCHANGED uiVars /\ UNCHANGED enumVars /\ UNCHANGED focusVars

\* state.Get[uint32]("threadId_winEvent"), PostThreadMessage(tID, WM_QUIT)
DPostQuit(d) ==
    /\ running /\ BagIn(d, delayed) /\ d.at = "posted"
    /\ delayed' = delayed (-) SetToBag({d})
    /\ LET tID == Get(data, "uint32", "threadId_winEvent")
       IN  IF tID.ok /\ tID.value # 0 /\ tID.value \in LoopIds
              /\ loops[tID.value] # "free"
           THEN quitq' = [quitq EXCEPT ![tID.value] = TRUE]
           ELSE UNCHANGED quitq
    /\ UNCHANGED <<running, reg, data, pc, val, held, notify, mu, open, tray, used>>
    /\ UNCHANGED <<loops, hooks, evq, fired>>
    /\ UNCHANGED histVars
    /\ UNCHANGED <<logged, owed>>
    /\ UNCHANGED identVars /\ UNCHANGED storeVars
    /\ UNCHANGED uiVars /\ UNCHANGED enumVars /\ UNCHANGED focusVars

\* ------------------------------------------------------------ environment
\* another program writes the registry value, at most max times in a run
Edit(v, max) ==
    /\ running
    /\ used.edits < max
    /\ used' = [used EXCEPT !.edits = @ + 1]
    /\ reg' = v
    /\ notify' = Notified(notify)
    /\ wake' = WakeAfter(v)
    /\ owed' = IF notify.block THEN owed + 1 ELSE owed
    /\ chain' = <<>>
    /\ clean' = [t \in Togglers |-> FALSE]
    /\ UNCHANGED <<running, data, pc, val, held, mu, open, tray, snap, seen, cycleSet>>
    /\ UNCHANGED hookVars
    /\ UNCHANGED <<logged>>
    /\ UNCHANGED identVars /\ UNCHANGED storeVars
    /\ UNCHANGED uiVars /\ UNCHANGED enumVars /\ UNCHANGED focusVars

ExternalEdit(v) == Edit(v, MaxEdits)
BurstEdit(v) == Edit(v, MaxBurst)

\* a top-level window is created or destroyed
OpenWindow(h) ==
    /\ running /\ h \notin open
    /\ open' = open \cup {h}
    /\ UNCHANGED <<running, reg, data, pc, val, held, notify, mu, tray, used>>
    /\ UNCHANGED hookVars /\ UNCHANGED histVars
    /\ UNCHANGED <<logged, owed>>
    /\ UNCHANGED identVars /\ UNCHANGED storeVars
    /\ UNCHANGED uiVars /\ UNCHANGED enumVars /\ UNCHANGED focusVars

CloseWindow(h) ==
    /\ running /\ h \in open
    /\ open' = open \ {h}
    /\ UNCHANGED <<running, reg, data, pc, val, held, notify, mu, tray, used>>
    /\ UNCHANGED hookVars /\ UNCHANGED histVars
    /\ UNCHANGED <<logged, owed>>
    /\ UNCHANGED identVars /\ UNCHANGED storeVars
    /\ UNCHANGED uiVars /\ UNCHANGED enumVars /\ UNCHANGED focusVars

\* EVENT_SYSTEM_FOREGROUND for a window: queued to every installed hook
FocusEvent(h, objectId) ==
    /\ running /\ h \in open
    /\ used.focus < MaxFocus
    /\ used' = [used EXCEPT !.focus = @ + 1]
    /\ evq' = [g \in LoopIds |->
                 IF g \in hooks THEN Append(evq[g], [hwnd |-> h, objectId |-> objectId])
                 ELSE evq[g]]
    /\ UNCHANGED <<running, reg, data, pc, val, held, notify, mu, open, tray>>
    /\ UNCHANGED <<loops, hooks, quitq, delayed, fired>>
    /\ UNCHANGED histVars
    /\ UNCHANGED <<logged, owed>>
    /\ UNCHANGED identVars /\ UNCHANGED storeVars
    /\ UNCHANGED uiVars /\ UNCHANGED enumVars /\ UNCHANGED focusVars

Delayed == {[hwnd |-> h, at |-> a] : h \in HWNDs, a \in {"sleep", "posted"}}
DelayedFocus == {[hwnd |-> h, at |-> a] : h \in FocusWins, a \in {"sleep", "posted"}}

\* ------------------------------------------- IsFileExplorer on its own
ClassNames ==
    { CabinetWClass,
      <<"C","A","B","I","N","E","T","W","C","L","A","S","S">>,
      <<"c","a","b","i","n","e","t","w","c","l","a","s","s">>,
      <<"C","a","b","i","n","e","t","W","C","l","a","s">>,
      <<"N","o","t","e","p","a","d">> }

ExeNames ==
    { <<"C",":","\\","W","i","n","d","o","w","s","\\",
        "e","x","p","l","o","r","e","r",".","e","x","e">>,
      <<"c",":","/","w","i","n","d","o","w","s","/","/",
        "E","X","P","L","O","R","E","R",".","E","X","E">>,
      <<"C",":","\\","W","I","N","D","O","W","S","\\",
        "e","x","p","l","o","r","e","r",".","e","x","e","\\">>,
      <<"C",":","\\","W","i","n","d","o","w","s","\\",
        "n","o","t","e","p","a","d",".","e","x","e">>,
      <<"C",":","\\","e","x","p","l","o","r","e","r",".","e","x","e">>,
      <<"D",":","\\","W","i","n","d","o","w","s","\\",
        "e","x","p","l","o","r","e","r",".","e","x","e">> }

\* every answer the OS can give about a window
WinInfos ==
    [classErr : BOOLEAN, className : ClassNames, pidErr : BOOLEAN,
     openErr : BOOLEAN, queryErr : BOOLEAN, exeName : ExeNames]

Bool(b) == IF b THEN "true" ELSE "false"

\* l.IsFileExplorer(hwnd) is called for the window under test
Identify ==
    /\ verdict = "none"
    /\ verdict' = Bool(IsFileExplorerInfo(win))
    /\ UNCHANGED win

\* the next window is handed to the test
NextWindow(w) ==
    /\ verdict # "none"
    /\ win' = w
    /\ verdict' = "none"

\* ------------------------------- RefreshExplorerWindows, window by window
\* what the OS can answer about a top-level window of the desktop: a File
\* Explorer window, another window, a window whose handle was closed
\* meanwhile, a window whose process may not be opened
DeskInfos ==
    { WinInfo(1), WinInfo(2),
      [WinInfo(1) EXCEPT !.classErr = TRUE],
      [WinInfo(1) EXCEPT !.openErr = TRUE] }

\* what a call of RefreshExplorerWindows leaves alone
enumRest == <<running, reg, data, pc, val, held, notify, hooks, evq, quitq,
              delayed, open, tray, chain, snap, clean, wake, seen, cycleSet,
              fired, owed, box>>

\* the top-level windows in the order EnumWindows lists them
Desks == UNION {[1..n -> DeskInfos] : n \in 0..MaxWins}

\* l.mu.Lock(); found := 0; EnumWindows starts
EnumBegin ==
    /\ running /\ enum.at = "idle"
    /\ mu = "free"
    /\ mu' = "enum"
    /\ enum' = [at |-> "enum", next |-> 1, found |-> 0,
                posts |-> [i \in 1..Len(desk) |-> 0], armed |-> FALSE]
    /\ UNCHANGED <<loops, logged, used, desk>>
    /\ UNCHANGED enumRest
    /\ UNCHANGED identVars /\ UNCHANGED storeVars /\ UNCHANGED focusVars

\* an enumWindowsProc that posts to the first File Explorer window only
EnumProcFirst ==
    /\ running /\ enum.at = "enum"
    /\ enum.next <= Len(desk)
    /\ enum' = IF IsFileExplorerInfo(desk[enum.next])
               THEN IF enum.found = 0
                    THEN [enum EXCEPT !.found = 1,
                                      !.posts[enum.next] = @ + 1,
                                      !.next = @ + 1]
                    ELSE [enum EXCEPT !.next = @ + 1]
               ELSE [enum EXCEPT !.next = @ + 1]
    /\ UNCHANGED <<loops, logged, used, desk, mu>>
    /\ UNCHANGED enumRest
    /\ UNCHANGED identVars /\ UNCHANGED storeVars /\ UNCHANGED focusVars

\* an enumWindowsProc that returns 0 when a query about the window failed
EnumProcStops ==
    /\ running /\ enum.at = "enum"
    /\ enum.next <= Len(desk)
    /\ enum' = IF IsFileExplorerInfo(desk[enum.next])
               THEN [enum EXCEPT !.found = 1,
                                 !.posts[enum.next] = @ + 1,
                                 !.next = @ + 1]
               ELSE IF desk[enum.next].classErr \/ desk[enum.next].pidErr
                       \/ desk[enum.next].openErr \/ desk[enum.next].queryErr
                    THEN [enum EXCEPT !.next = Len(desk) + 1]
                    ELSE [enum EXCEPT !.next = @ + 1]
    /\ UNCHANGED <<loops, logged, used, desk, mu>>
    /\ UNCHANGED enumRest
    /\ UNCHANGED identVars /\ UNCHANGED storeVars /\ UNCHANGED focusVars

\* enumWindowsProc is called for the next window: on a File Explorer window
\* *found = 1 and PostRefreshMessage(hwnd); it returns 1 in every case
EnumProc ==
    /\ running /\ enum.at = "enum"
    /\ enum.next <= Len(desk)
    /\ enum' = IF IsFileExplorerInfo(desk[enum.next])
               THEN [enum EXCEPT !.found = 1,
                                 !.posts[enum.next] = @ + 1,
                                 !.next = @ + 1]
               ELSE [enum EXCEPT !.next = @ + 1]
    /\ UNCHANGED <<loops, logged, used, desk, mu>>
    /\ UNCHANGED enumRest
    /\ UNCHANGED identVars /\ UNCHANGED storeVars /\ UNCHANGED focusVars

\* EnumWindows returns an error: log.Warnf, return, the deferred Unlock
EnumWindowsFail ==
    /\ running /\ enum.at = "enum"
    /\ CanFail
    /\ used' = Failed
    /\ logged' = Append(logged, [who |-> "refresh", err |-> "EnumWindows"])
    /\ enum' = [enum EXCEPT !.at = "failed"]
    /\ mu' = "free"
    /\ UNCHANGED <<loops, desk>>
    /\ UNCHANGED enumRest
    /\ UNCHANGED identVars /\ UNCHANGED storeVars /\ UNCHANGED focusVars

\* a RefreshExplorerWindows that starts the message loop whenever no hook is
\* recorded, whatever it found
EnumEndArms ==
    /\ running /\ enum.at = "enum"
    /\ enum.next = Len(desk) + 1
    /\ IF ~HookIsSet(data)
       THEN /\ FreeLoops # {}
            /\ loops' = [loops EXCEPT ![NextLoop] = "l_install"]
            /\ enum' = [enum EXCEPT !.at = "done", !.armed = TRUE]
       ELSE /\ UNCHANGED loops
            /\ enum' = [enum EXCEPT !.at = "done"]
    /\ mu' = "free"
    /\ UNCHANGED <<logged, used, desk>>
    /\ UNCHANGED enumRest
    /\ UNCHANGED identVars /\ UNCHANGED storeVars /\ UNCHANGED focusVars

\* EnumWindows returns nil after the last window; lines 166-174: with
\* found = 0 and no hook entry l.WatchMessageLoop() starts its goroutine; the
\* deferred Unlock
EnumEnd ==
    /\ running /\ enum.at = "enum"
    /\ enum.next = Len(desk) + 1
    /\ IF enum.found = 0 /\ ~HookIsSet(data)
       THEN /\ FreeLoops # {}
            /\ loops' = [loops EXCEPT ![NextLoop] = "l_install"]
            /\ enum' = [enum EXCEPT !.at = "done", !.armed = TRUE]
       ELSE /\ UNCHANGED loops
            /\ enum' = [enum EXCEPT !.at = "done"]
    /\ mu' = "free"
    /\ UNCHANGED <<logged, used, desk>>
    /\ UNCHANGED enumRest
    /\ UNCHANGED identVars /\ UNCHANGED storeVars /\ UNCHANGED focusVars

\* RefreshExplorerWindows has returned; its next call starts from nothing
EnumNext ==
    /\ running /\ enum.at \in {"done", "failed"}
    /\ enum' = NoEnum
    /\ UNCHANGED <<loops, logged, used, mu, desk>>
    /\ UNCHANGED enumRest
    /\ UNCHANGED identVars /\ UNCHANGED storeVars /\ UNCHANGED focusVars

\* between two calls a top-level window is created ...
DeskOpens(w) ==
    /\ running /\ enum.at = "idle"
    /\ Len(desk) < MaxWins
    /\ desk' = Append(desk, w)
    /\ UNCHANGED <<loops, logged, used, mu, enum>>
    /\ UNCHANGED enumRest
    /\ UNCHANGED identVars /\ UNCHANGED storeVars /\ UNCHANGED focusVars

\* ... or destroyed
DeskCloses(i) ==
    /\ running /\ enum.at = "idle"
    /\ i \in 1..Len(desk)
    /\ desk' = SubSeq(desk, 1, i - 1) \o SubSeq(desk, i + 1, Len(desk))
    /\ UNCHANGED <<loops, logged, used, mu, enum>>
    /\ UNCHANGED enumRest
    /\ UNCHANGED identVars /\ UNCHANGED storeVars /\ UNCHANGED focusVars

\* ------------------------------------------- the state package on its own
Inside(t) == spc[t].pc # "idle"
\* a writer is in the middle of changing the map
Torn(t) == \E u \in StoreThreads \ {t} : spc[u].pc = "mid"

\* mu.RLock() or mu.Lock() at the head of the call c
Acquire(t, c) ==
    /\ spc[t].pc = "idle"
    /\ IF LockKind(c.name) = "R"
       THEN /\ ~rw.writer
            /\ rw' = [rw EXCEPT !.readers = @ + 1]
       ELSE /\ ~rw.writer /\ rw.readers = 0
            /\ rw' = [rw EXCEPT !.writer = TRUE]
    /\ spc' = [spc EXCEPT ![t] = [pc |-> "in", call |-> c, ret |-> NoRet]]
    /\ UNCHANGED <<data, last>>

\* the body of Get: the lookup and the type assertion
GetBody(t) ==
    /\ spc[t].pc = "in" /\ spc[t].call.name = "get"
    /\ \E r \in (IF Torn(t) THEN Rets
                 ELSE {Get(data, spc[t].call.typ, spc[t].call.key)}) :
          spc' = [spc EXCEPT ![t].pc = "out", ![t].ret = r]
    /\ UNCHANGED <<data, last, rw>>

\* the body of Set, Delete or Clear starts changing the map
WriteBegin(t) ==
    /\ spc[t].pc = "in" /\ spc[t].call.name # "get"
    /\ spc' = [spc EXCEPT ![t].pc = "mid"]
    /\ UNCHANGED <<data, last, rw>>

\* the body of Set, Delete or Clear has changed the map
WriteEnd(t) ==
    /\ spc[t].pc = "mid"
    /\ data' = Apply(data, spc[t].call)
    /\ last' = [k \in StoreKeys |->
                 IF spc[t].call.name = "clear" \/ spc[t].call.key = k
                 THEN [name |-> spc[t].call.name, typ |-> spc[t].call.typ,
                       val |-> spc[t].call.val]
                 ELSE last[k]]
    /\ spc' = [spc EXCEPT ![t].pc = "out"]
    /\ UNCHANGED rw

\* mu.RUnlock() or mu.Unlock(), and the call returns
Release(t) ==
    /\ spc[t].pc = "out"
    /\ rw' = IF LockKind(spc[t].call.name) = "R"
             THEN [rw EXCEPT !.readers = @ - 1]
             ELSE [rw EXCEPT !.writer = FALSE]
    /\ spc' = [spc EXCEPT ![t].pc = "idle"]
    /\ UNCHANGED <<data, last>>

\* ---------------------------------------------------------- specifications
Startup == MRegister \/ MRead \/ MSet \/ MTray

Watcher == WSetup \/ WArm \/ WWait \/ WWaitFailed \/ WRead \/ WSet \/ WTray \/ WErr

InitCommon == InitProgram /\ InitIdent /\ InitStore /\ InitEnum

restVars == <<running, reg, pc, val, held, notify, mu, loops, hooks, evq,
              quitq, delayed, open, tray, used, chain, snap, clean, wake,
              seen, cycleSet, fired, logged, owed, box>>

\* The state package called by concurrent goroutines.
InitStorePkg ==
    /\ InitProgram /\ reg = statusVisible /\ open = {}
    /\ InitIdent /\ InitStore /\ InitEnum

NextStore ==
    /\ \E t \in StoreThreads :
          \/ \E c \in StoreCalls : Acquire(t, c)
          \/ GetBody(t)
          \/ WriteBegin(t)
          \/ WriteEnd(t)
          \/ Release(t)
    /\ UNCHANGED restVars /\ UNCHANGED identVars
    /\ UNCHANGED enumVars /\ UNCHANGED focusVars

SpecStore == InitStorePkg /\ [][NextStore]_vars

progVars == <<running, reg, data, pc, val, held, notify, mu, loops, hooks, evq,
              quitq, delayed, open, tray, used, chain, snap, clean, wake,
              seen, cycleSet, fired, logged, owed, box>>

\* IsFileExplorer applied to every answer of the OS.
InitIdentify ==
    /\ InitProgram /\ reg = statusVisible /\ open = {}
    /\ InitStore /\ InitEnum
    /\ win \in WinInfos /\ verdict = "none"

NextIdentify ==
    /\ Identify \/ \E w \in WinInfos : NextWindow(w)
    /\ UNCHANGED progVars /\ UNCHANGED storeVars
    /\ UNCHANGED enumVars /\ UNCHANGED focusVars

SpecIdent == InitIdentify /\ [][NextIdentify]_vars

\* RefreshExplorerWindows over every desktop of at most MaxWins windows; the
\* goroutines it starts install their hook and record it.
InitRefresh ==
    /\ InitProgram /\ reg = statusVisible /\ open = {}
    /\ InitIdent /\ InitStore
    /\ desk \in Desks /\ enum = NoEnum

NextRefresh ==
    \/ EnumBegin \/ EnumProc \/ EnumWindowsFail \/ EnumEnd
    \/ EnumNext
    \/ \E w \in DeskInfos : DeskOpens(w)
    \/ \E i \in 1..MaxWins : DeskCloses(i)
    \/ \E g \in LoopIds : LInstall(g) \/ LSetHook(g) \/ LSetTid(g)

SpecEnum == InitRefresh /\ [][NextRefresh]_vars

\* The status side: a File Explorer window stays open, so every refresh finds
\* it and the focus watcher is never armed.
InitStatus == InitCommon /\ reg \in RegVals /\ open = {1}

NextStatus ==
    \/ Startup
    \/ \E t \in Togglers : ToggleRead(t) \/ ToggleWrite(t) \/ ToggleSet(t)
    \/ Watcher \/ WEnumFail \/ WEnumFound
    \/ \E v \in RegVals : ExternalEdit(v)

SpecStatus == InitStatus /\ [][NextStatus]_vars

\* The registry watcher on its own: startup, the watcher and external writes.
InitWatch == InitCommon /\ reg \in RegVals /\ open = {1}

NextWatch ==
    \/ Startup
    \/ MAbout \/ BoxClosed("About")
    \/ Watcher \/ WEnumFail \/ WEnumFound
    \/ \E v \in RegVals : BurstEdit(v)

SpecWatch == InitWatch /\ [][NextWatch]_vars

\* The focus-watcher side: refresh cycles are driven by external edits of the
\* registry value; windows come, go and take the focus.
InitHook == InitCommon /\ reg = statusVisible /\ open = {}

NextHook ==
    \/ Startup
    \/ Watcher \/ WEnumFail \/ WEnumFound \/ WEnumNone \/ WCheck
    \/ \E g \in LoopIds :
         \/ LInstall(g) \/ LSetHook(g) \/ LSetTid(g) \/ LCallback(g)
         \/ LQuit(g) \/ LGetMessageFail(g) \/ LErr(g)
         \/ LUnhook(g) \/ LDelHook(g) \/ LDelTid(g)
    \/ \E d \in Delayed : DPostRefresh(d) \/ DPostQuit(d)
    \/ ExternalEdit(statusHidden)
    \/ \E h \in HWNDs : OpenWindow(h) \/ CloseWindow(h)
    \/ \E h \in HWNDs, o \in {0, 1} : FocusEvent(h, o)

SpecHook == InitHook /\ [][NextHook]_vars

\* The focus side: no window is open at the start, File Explorer windows and
\* another window open later and gain focus; nothing fails but the install
\* of the hook.
InitFocus == InitCommon /\ reg = statusVisible /\ open = {}

NextFocus ==
    \/ Startup
    \/ Watcher \/ WEnumFound \/ WEnumNone \/ WCheck
    \/ \E g \in LoopIds :
         \/ LInstall(g) \/ LSetHook(g) \/ LSetTid(g) \/ LCallback(g)
         \/ LQuit(g) \/ LErr(g)
         \/ LUnhook(g) \/ LDelHook(g) \/ LDelTid(g)
    \/ \E d \in DelayedFocus : DPostRefresh(d) \/ DPostQuit(d)
    \/ ExternalEdit(statusHidden)
    \/ \E h \in FocusWins : OpenWindow(h)
    \/ \E h \in FocusWins, o \in {0, 1} : FocusEvent(h, o)

SpecFocus == InitFocus /\ [][NextFocus]_vars

\* The error channel: no window is open, the menu item is clicked, the
\* registry is edited and OS calls fail.  The Go scheduler runs every
\* goroutine that can take a step, and the select of onReady takes a
\* waiting sender when it is reached.
InitErr == InitCommon /\ reg = statusVisible /\ open = {}

MainSteps == Startup \/ ToggleWrite("main") \/ ToggleSet("main")
Receives == WErr \/ \E g \in LoopIds : LErr(g)
Cleanup == \E g \in LoopIds : LUnhook(g) \/ LDelHook(g) \/ LDelTid(g)

NextErr ==
    \/ Startup
    \/ ToggleRead("main") \/ ToggleWrite("main") \/ ToggleSet("main")
    \/ Watcher \/ WEnumFail \/ WEnumNone \/ WCheck
    \/ \E g \in LoopIds :
         \/ LInstall(g) \/ LSetHook(g) \/ LSetTid(g)
         \/ LGetMessageFail(g) \/ LErr(g)
         \/ LUnhook(g) \/ LDelHook(g) \/ LDelTid(g)
    \/ ExternalEdit(statusHidden)

SpecErr ==
    /\ InitErr /\ [][NextErr]_vars
    /\ WF_vars(MainSteps) /\ WF_vars(Receives) /\ WF_vars(Cleanup)

\* -------------------------------------------------------------- properties
Opposite(s) == IF s = statusVisible THEN statusHidden ELSE statusVisible
IsStatus(v) == v \in {statusVisible, statusHidden}
Stored(v) == [value |-> v, ok |-> TRUE]
Returns(t) == pc[t] = "t_set" /\ pc'[t] = Home(t)
AllHome == pc["main"] = "loop" /\ pc["hotkey"] = "idle"

\* C1: successful calls of ToggleHidden made one after another, with no
\* external edit in between, alternate the status entry: the call that follows
\* a status (stored by the startup read or by the call before) stores the
\* other member of {Visible, Hidden}.
C1_Alternates ==
    [][\A t \in Togglers :
         (Returns(t) /\ clean[t] /\ snap[t] # <<>> /\ IsStatus(snap[t][Len(snap[t])]))
            => Status' = Stored(Opposite(snap[t][Len(snap[t])]))]_vars

\* C1 happens: the startup read stored Hidden, then one call stored Visible
\* and the next stored Hidden
C1_Witness ==
    /\ AllHome
    /\ chain = <<statusHidden, statusVisible, statusHidden>>
    /\ Status = Stored(statusHidden)

\* the call of ToggleHidden by t writes the registry value in this step
Writes(t) == pc[t] = "t_write" /\ pc'[t] = "t_set"

\* C2: when ToggleHidden succeeds, its write makes the registry value the
\* opposite of the value it read, and on return the status entry is that
\* opposite; the registry value is still that opposite on return when nobody
\* else wrote it since the call read it.
C2_ToggleResult ==
    [][\A t \in Togglers :
         /\ (Writes(t) /\ IsStatus(val[t])) => reg' = Opposite(val[t])
         /\ (Returns(t) /\ IsStatus(val[t]))
              => /\ Status' = Stored(Opposite(val[t]))
                 /\ clean[t] => reg' = Opposite(val[t])]_vars

\* C2 happens: the value was 1, one call has returned, the value and the
\* status entry are 2
C2_Witness ==
    /\ AllHome
    /\ chain = <<statusVisible, statusHidden>>
    /\ reg = statusHidden
    /\ Status = Stored(statusHidden)

\* C3: two successful calls of ToggleHidden in a row, with no other writer of
\* the registry value in between, restore the status that held before the
\* first: the registry value and the status entry are that status again.
C3_TwoRestore ==
    [][\A t \in Togglers :
         (Returns(t) /\ clean[t] /\ Len(snap[t]) >= 2
             /\ IsStatus(snap[t][Len(snap[t]) - 1]))
            => /\ Status' = Stored(snap[t][Len(snap[t]) - 1])
               /\ reg' = snap[t][Len(snap[t]) - 1]]_vars

\* C3 happens: the status was Visible, two calls have returned, it is again
C3_Witness ==
    /\ AllHome
    /\ chain = <<statusVisible, statusHidden, statusVisible>>
    /\ reg = statusVisible
    /\ Status = Stored(statusVisible)

\* a call of ToggleHidden by t returns with a failure in this step
FailReturn(t) ==
    \/ pc[t] = "t_write" /\ pc'[t] = Home(t)
    \/ pc[t] = Home(t) /\ pc' = pc /\ used'.toggles = used.toggles + 1

\* C4: on every failure of ToggleHidden the status entry is as it was and the
\* registry handle the call opened has been closed when it returns.
C4_FailureClean ==
    [][\A t \in Togglers :
         FailReturn(t) => Status' = Status /\ held'[t] = 0]_vars

\* C5: while the watcher runs with its notification registered, an external
\* edit is not lost and is handled in one cycle: the watcher never blocks in
\* its wait with the edit unread (the event stays signalled or the change
\* pending until it reads); the cycle that reads the edit stores the edited
\* value in the status entry; and RefreshExplorerWindows is entered only
\* after the status entry was stored in that cycle.
C5_EditRefresh ==
    [][/\ (pc["watcher"] = "w_set" /\ pc'["watcher"] # "w_set" /\ seen # NoWake)
            => Status' = Stored(seen)
       /\ pc'["watcher"] \in {"w_enum", "w_check"} => cycleSet'
       /\ (wake' # NoWake /\ pc'["watcher"] \in {"w_arm", "w_wait", "w_set", "w_tray", "w_enum"})
            => (notify'.event \/ notify'.pending)]_vars

\* C5 happens: an external edit set the value to 1 while the status entry was
\* Hidden; the watcher has stored Visible and is about to refresh
C5_Witness ==
    /\ seen = statusVisible
    /\ pc["watcher"] = "w_enum"
    /\ Status = Stored(statusVisible)
    /\ tray = "Hide"
    /\ chain = <<>>
    /\ used.toggles > 0

\* C6: when no toggle is in progress and the watcher, not failed, waits with
\* nothing signalled, the status entry equals the registry value (else,
\* toggles and edits having stopped, the two stay apart for ever).
C6_Converges ==
    (running /\ AllHome /\ pc["watcher"] = "w_wait" /\ ~notify.event /\ notify.armed)
        => Status = Stored(reg)

\* the focus watcher is Armed when a hook is installed, Idle when no message
\* loop goroutine exists
Armed == hooks # {}
Idle == \A g \in LoopIds : loops[g] = "free"
Spawned == {g \in LoopIds : loops[g] = "free" /\ loops'[g] = "l_install"}
Decides == pc["watcher"] = "w_check" /\ pc'["watcher"] # "w_check"
HookEntry == data["hook_winEvent"].typ # "none"
ThreadEntry == data["threadId_winEvent"].typ # "none"

\* C7: a RefreshExplorerWindows that finds no window while the focus watcher
\* is Idle starts exactly one WatchMessageLoop; one that finds no window
\* while the watcher is Armed starts none.
C7_ArmOnce ==
    [][Decides => /\ Idle => Cardinality(Spawned) = 1
                  /\ Armed => loops' = loops]_vars

\* C8: at most one foreground event hook is installed, and at most one
\* message loop runs.
C8_OneHook ==
    /\ Cardinality(hooks) <= 1
    /\ Cardinality({g \in LoopIds : loops[g] \in {"l_getmsg", "l_err_getmsg"}}) <= 1

\* C9: the hook-handle entry is present exactly when the owning-thread-id
\* entry is present.
C9_EntriesTogether == HookEntry <=> ThreadEntry

\* C10: once the callback of an Armed watcher has run for a File Explorer
\* window and the work it started has finished, WM_QUIT has reached the
\* message loop of that watcher (which then unhooks and deletes both entries).
C10_Disarms ==
    \A g \in LoopIds :
        (fired[g] /\ delayed = EmptyBag /\ loops[g] = "l_getmsg") => quitq[g]

\* the watcher's GetKeyValuePair reads the registry value in this step
WatcherReads == pc["watcher"] = "w_read" /\ pc'["watcher"] = "w_set"

\* C11: the read-modify-write of ToggleHidden is one atomic step for the other
\* toggler and for the watcher: two calls are never both between their read
\* and their return, the value a call read is still the registry value when
\* it writes (no external edit in the run), and the watcher does not read the
\* registry between a call's write and its store of the status entry.
C11_ToggleAtomic ==
    [][/\ ~(InToggle("main")' /\ InToggle("hotkey")')
       /\ \A t \in Togglers : (Writes(t) /\ used.edits = 0) => val[t] = reg
       /\ WatcherReads => \A t \in Togglers : pc[t] # "t_set"]_vars

\* the watcher is blocked in WaitForSingleObject with nothing signalled
Quiet ==
    /\ running /\ pc["main"] = "loop" /\ pc["watcher"] = "w_wait"
    /\ notify.armed /\ ~notify.event

\* C12 as claimed: the watcher does not coalesce; when it is back in its wait
\* (no OS call having failed) it has woken once for every write of the value
\* made while it was active.
C12_NoCoalescing == (Quiet /\ used.fails = 0) => owed = 0

\* C12 amended: the watcher coalesces; it never wakes more often than the
\* value was written while it was active, and it does not go back to its wait
\* while a write made since its last read is unread.
C12_Coalesces ==
    /\ owed >= 0
    /\ Quiet => wake = NoWake

\* C12 happens: three external writes, fewer wakes, and the watcher waits
\* again with the last written value stored
C12_Witness ==
    /\ Quiet
    /\ used.edits = MaxBurst
    /\ used.fails = 0
    /\ owed > 0
    /\ Status = Stored(reg)

\* ---------------------------------------------------------------- C13
UpperOf(c) == IF \E i \in 1..Len(Lower) : Lower[i] = c
              THEN Upper[CHOOSE i \in 1..Len(Lower) : Lower[i] = c]
              ELSE c
SameNoCase(s, t) ==
    /\ Len(s) = Len(t)
    /\ \A i \in 1..Len(s) : UpperOf(s[i]) = UpperOf(t[i])
ExplorerPath ==
    <<"C",":","\\","W","I","N","D","O","W","S","\\",
      "e","x","p","l","o","r","e","r",".","e","x","e">>
QueryFailed(w) == w.classErr \/ w.pidErr \/ w.openErr \/ w.queryErr

\* C13: a window passes the identity test exactly when its class name is
\* CabinetWClass up to case and its normalized executable path is
\* <SystemRoot>\explorer.exe up to case; a failure of any of the four
\* queries (class name, process id, process handle, executable path) makes
\* the test return false.
C13_Identity ==
    verdict # "none" =>
        /\ verdict = Bool(/\ ~QueryFailed(win)
                          /\ SameNoCase(win.className, CabinetWClass)
                          /\ SameNoCase(Clean(win.exeName), ExplorerPath))
        /\ QueryFailed(win) => verdict = "false"

\* accepted although class and path differ from the expected ones in case
\* and the path needs normalizing
C13_Witness ==
    /\ verdict = "true"
    /\ win.className # CabinetWClass
    /\ win.exeName # Join(SystemRoot, explorerExe)
    /\ Clean(win.exeName) # win.exeName

\* ---------------------------------------------------------------- C14
\* goroutine t runs the body of Get in this step
Gets(t) == spc[t].pc = "in" /\ spc[t].call.name = "get" /\ spc'[t].pc = "out"
\* goroutine t finishes the body of the named write in this step
Ends(t, name) == spc[t].pc = "mid" /\ spc[t].call.name = name /\ spc'[t].pc = "out"
\* what every Get on the keys other than k returns is the same after the step
OthersKept(k) ==
    \A j \in StoreKeys \ {k} : \A T \in StoreTypes :
        Get(data', T, j) = Get(data, T, j)

\* C14: a get on k whose last operation was set(k, v), asked with v's type,
\* returns (v, true); a set on k leaves the result of get on every other key
\* unchanged.
C14_GetAfterSet ==
    [][\A t \in StoreThreads :
        /\ (Gets(t) /\ last[spc[t].call.key].name = "set"
                    /\ last[spc[t].call.key].typ = spc[t].call.typ)
             => spc'[t].ret = [value |-> last[spc[t].call.key].val, ok |-> TRUE]
        /\ Ends(t, "set") => OthersKept(spc[t].call.key)]_vars

\* a get has returned the value last set on its key while the other key is
\* set as well
C14_Witness ==
    \E t \in StoreThreads :
        /\ spc[t].pc = "out" /\ spc[t].call.name = "get"
        /\ spc[t].ret = [value |-> MaxStoreVal, ok |-> TRUE]
        /\ last[spc[t].call.key] =
              [name |-> "set", typ |-> spc[t].call.typ, val |-> MaxStoreVal]
        /\ \E j \in StoreKeys \ {spc[t].call.key} : last[j].name = "set"

\* ---------------------------------------------------------------- C15
\* C15: a get on an absent key returns (zero, false): a key never set, a
\* key after delete (which leaves every other key unchanged), and every key
\* after clear.
C15_GetAbsent ==
    [][\A t \in StoreThreads :
        /\ (Gets(t) /\ last[spc[t].call.key].name \in {"none", "delete", "clear"})
             => spc'[t].ret = [value |-> 0, ok |-> FALSE]
        /\ Ends(t, "delete") => OthersKept(spc[t].call.key)
        /\ Ends(t, "clear") =>
             \A k \in StoreKeys : \A T \in StoreTypes :
                 Get(data', T, k) = [value |-> 0, ok |-> FALSE]]_vars

\* a get has found a deleted key absent while the other key is still set
C15_Witness ==
    \E t \in StoreThreads :
        /\ spc[t].pc = "out" /\ spc[t].call.name = "get"
        /\ spc[t].ret = [value |-> 0, ok |-> FALSE]
        /\ last[spc[t].call.key].name = "delete"
        /\ \E j \in StoreKeys \ {spc[t].call.key} :
              /\ last[j].name = "set"
              /\ Get(data, last[j].typ, j) = [value |-> last[j].val, ok |-> TRUE]

\* ---------------------------------------------------------------- C16
\* C16: a get whose requested type differs from the stored value's type
\* returns (zero, false) and leaves the entry as it is, so that a get with
\* the stored type still returns (value, true).
C16_TypeMismatch ==
    [][\A t \in StoreThreads :
        (Gets(t) /\ last[spc[t].call.key].name = "set"
                 /\ last[spc[t].call.key].typ # spc[t].call.typ)
         => /\ spc'[t].ret = [value |-> 0, ok |-> FALSE]
            /\ data' = data
            /\ Get(data', last[spc[t].call.key].typ, spc[t].call.key)
                 = [value |-> last[spc[t].call.key].val, ok |-> TRUE]]_vars

\* one get was refused for its type and another, asked with the stored
\* type, has the non-zero value of the same key
C16_Witness ==
    \E t, u \in StoreThreads :
        /\ spc[t].pc = "out" /\ spc[t].call.name = "get"
        /\ spc[u].pc = "out" /\ spc[u].call.name = "get"
        /\ spc[t].call.key = spc[u].call.key
        /\ spc[t].call.typ # spc[u].call.typ
        /\ spc[t].ret = [value |-> 0, ok |-> FALSE]
        /\ spc[u].ret = [value |-> MaxStoreVal, ok |-> TRUE]

\* ---------------------------------------------------------------- C17
InsideWriters == {t \in StoreThreads : Inside(t) /\ spc[t].call.name # "get"}
InsideReaders == {t \in StoreThreads : Inside(t) /\ spc[t].call.name = "get"}

\* C17: under concurrent get, set, delete and clear a writer is never in
\* its critical section together with another writer or with a reader,
\* several readers may be inside together, and no get reads the map while a
\* write is half done.
C17_ReadersWriter ==
    [][/\ Cardinality(InsideWriters') <= 1
       /\ InsideWriters' # {} => InsideReaders' = {}
       /\ \A t \in StoreThreads : Gets(t) => ~Torn(t)]_vars

\* every goroutine is inside Get at once, after a write
C17_Witness ==
    /\ InsideReaders = StoreThreads
    /\ \E k \in StoreKeys : last[k].name # "none"

\* ---------------------------------------------------------------- C18
ArmError == [who |-> "watcher", err |-> "RegNotifyChangeKeyValue"]
FromWatcher == {i \in DOMAIN logged : logged[i].who = "watcher"}
\* the watcher has left its loop because arming failed
ArmFailed ==
    \/ pc["watcher"] = "w_err_arm"
    \/ pc["watcher"] = "done" /\ \E i \in DOMAIN logged : logged[i] = ArmError

\* C18: when arming the change notification fails, in the first or a later
\* iteration, exactly one error goes over the error channel, the watcher
\* leaves its loop and never starts again, the process keeps running, and
\* toggles from the hotkey and from the tray still flip the value.
C18_ArmFailure ==
    [][ArmFailed =>
        /\ ArmFailed'
        /\ running'
        /\ Cardinality(FromWatcher) = (IF pc["watcher"] = "done" THEN 1 ELSE 0)
        /\ (pc["watcher"] = "w_err_arm" /\ pc'["watcher"] = "done")
             => logged' = Append(logged, ArmError)
        /\ \A t \in Togglers :
             /\ Writes(t) => reg' = NewValue(val[t])
             /\ Returns(t) => Status' = Stored(NewValue(val[t]))]_vars

\* arming failed in a later iteration, its one error was received, and a
\* toggle started from the tray afterwards has flipped the registry value
C18_Witness ==
    /\ pc["watcher"] = "done"
    /\ logged = <<ArmError>>
    /\ notify.block
    /\ running
    /\ pc["main"] = "t_set"
    /\ reg = NewValue(val["main"])

\* ---------------------------------------------------------------- C19
HookError == [who |-> "loop", err |-> "SetWinEventHook"]
\* SetWinEventHook fails for goroutine g in this step
InstallFails(g) == loops[g] = "l_install" /\ loops'[g] = "l_err_install"
\* no goroutine but the failed ones is in WatchMessageLoop
OnlyFailed == \A g \in LoopIds : loops[g] \in {"free", "l_err_install"}

\* C19: when the hook install fails the failure goes over the error channel
\* and the focus watcher stays Idle: the failed goroutine writes no hook or
\* thread-id entry, installs no hook and runs no message loop, and a later
\* RefreshExplorerWindows that finds no window starts WatchMessageLoop again.
C19_InstallFailure ==
    [][/\ \A g \in LoopIds :
            /\ InstallFails(g) => (data' = data /\ hooks' = hooks)
            /\ loops[g] = "l_err_install" =>
                 /\ g \notin hooks
                 /\ loops'[g] \in {"l_err_install", "free"}
                 /\ loops'[g] = "free" =>
                      (logged' = Append(logged, HookError) /\ data' = data
                       /\ hooks' = hooks)
       /\ ((\E g \in LoopIds : loops[g] = "l_err_install") /\ OnlyFailed) =>
            (~HookEntry /\ ~ThreadEntry /\ hooks = {})
       /\ (Decides /\ OnlyFailed /\ \E i \in DOMAIN logged : logged[i] = HookError)
            => Cardinality(Spawned) = 1]_vars

\* the failure was received, nothing is recorded or installed, and a
\* RefreshExplorerWindows that found no window is about to start the loop
\* again
C19_Witness ==
    /\ \E i \in DOMAIN logged : logged[i] = HookError
    /\ Idle
    /\ ~HookEntry /\ ~ThreadEntry /\ hooks = {}
    /\ pc["watcher"] = "w_check"
    /\ running

\* ---------------------------------------------------------------- C20
\* the entry that this step adds to the log is from the hotkey goroutine
HotkeyLogs ==
    /\ Len(logged') = Len(logged) + 1
    /\ logged'[Len(logged')].who = "hotkey"

\* C20: a failure of a toggle in the hotkey goroutine is logged and is not
\* fatal: the process runs on, the goroutine is back in its loop waiting for
\* the next key-down, and it never leaves that loop.
C20_HotkeyFailure ==
    [][/\ \A t \in Togglers :
            FailReturn(t) => \E e \in [who : Togglers,
                                      err : {"OpenKey", "GetIntegerValue",
                                             "SetDWordValue"}] :
                                logged' = Append(logged, e)
       /\ (pc["hotkey"] = "t_write" /\ pc'["hotkey"] = "idle") =>
            /\ logged' = Append(logged, [who |-> "hotkey", err |-> "SetDWordValue"])
            /\ running'
       /\ HotkeyLogs => (running' /\ pc'["hotkey"] = "idle")
       /\ pc["hotkey"] # "off" => pc'["hotkey"] # "off"]_vars

\* after a logged failure of its toggle the hotkey goroutine has taken the
\* next key-down and that toggle has written the registry value
C20_Witness ==
    /\ \E i \in DOMAIN logged : logged[i].who = "hotkey"
    /\ running
    /\ pc["hotkey"] = "t_set"
    /\ reg = NewValue(val["hotkey"])

\* ---------------------------------------------------------------- C21
\* hk.Register() has failed
RegisterFailed == \E i \in DOMAIN logged : logged[i] = [who |-> "main", err |-> "Register"]
\* the dialog with this title has been put on the screen
Shown(title) == data[StateLabel(title)].typ # "none"

\* C21: when the registration of the hotkey fails at startup the process
\* terminates, the error dialog has been shown before it exits, and the
\* hotkey goroutine is not started.
C21_FatalDialog ==
    RegisterFailed =>
        /\ ~running
        /\ Shown("Fatal Error")
        /\ pc["hotkey"] = "off"

\* ---------------------------------------------------------------- C22
\* the tray title that RefreshSystray gives for a status
TitleFor(status) == IF status = statusHidden THEN "Show" ELSE "Hide"
\* no toggle is in progress and the watcher waits with nothing signalled and
\* nothing pending: no refresh cycle will run unless the value is written again
AtRest == AllHome /\ Quiet /\ ~notify.pending

\* C22: after every successful toggle a refresh cycle is performed with the
\* new status.  Stated for runs without failures and external edits, where
\* the registry holds the status of the last toggle: once the program is at
\* rest after a toggle, the status entry and the tray show that status.
C22_ToggleRefreshes ==
    (AtRest /\ used.toggles > 0 /\ used.edits = 0 /\ used.fails = 0) =>
        /\ Status = Stored(reg)
        /\ tray = TitleFor(reg)

\* ---------------------------------------------------------------- C23
\* C23: whenever the status entry is present its value is Visible (1) or
\* Hidden (2), also after the startup read and after the watcher has stored
\* the value it read following an external edit.
C23_StatusEnum ==
    Status.ok => Status.value \in {statusVisible, statusHidden}

\* ---------------------------------------------------------------- C24
\* the status entry is not the same after this step
StatusWritten == data'["status_hidden"] # data["status_hidden"]
\* the step is the state.Set of onReady, of ToggleHidden, of the watcher
ByStartup == pc["main"] = "m_set" /\ pc'["main"] = "m_tray"
ByToggle == \E t \in Togglers : Returns(t)
ByWatcher == pc["watcher"] = "w_set" /\ pc'["watcher"] = "w_tray"

\* C24: every write of the status entry is made by a toggle or by the
\* startup read; no other component writes it, in particular not the watcher.
C24_OnlyAuthority ==
    [][StatusWritten => (ByStartup \/ ByToggle)]_vars

\* C24, as the code has it: the status entry is written by a toggle, by the
\* startup read, and by the watcher storing the value it read after a wake;
\* the tray refresh and RefreshExplorerWindows never write it.
C24_Writers ==
    [][/\ StatusWritten => (ByStartup \/ ByToggle \/ ByWatcher)
       /\ ByWatcher => Status' = Stored(val["watcher"])
       /\ (pc["watcher"] \in {"w_tray", "w_enum", "w_check"}
            /\ pc'["watcher"] # pc["watcher"]) => Status' = Status]_vars

\* with no toggle in the run, the watcher has stored Hidden after an external
\* edit while the tray still has the title of the startup status
C24_Witness ==
    /\ pc["watcher"] = "w_tray"
    /\ used.toggles = 0 /\ used.edits = 1
    /\ reg = statusHidden
    /\ Status = Stored(statusHidden)
    /\ tray = "Hide"

\* ---------------------------------------------------------------- C25
\* C25: every registry handle opened by GetKeyValuePair is released:
\* GetKeyValuePair(true) has closed it when it returns, and a toggle and each
\* cycle of the watcher have closed theirs when they are over, so no
\* goroutine that is back at its wait holds an open handle.
C25_HandlesReleased ==
    /\ \A t \in Togglers : pc[t] = Home(t) => held[t] = 0
    /\ pc["main"] \in {"m_set", "m_tray"} => held["main"] = 0
    /\ pc["watcher"] \in {"w_arm", "w_wait", "done"} => held["watcher"] = 0

\* ---------------------------------------------------------------- C26
\* the identity test of C13 on the answers w
Passes(w) ==
    /\ ~QueryFailed(w)
    /\ SameNoCase(w.className, CabinetWClass)
    /\ SameNoCase(Clean(w.exeName), ExplorerPath)
Visited == 1..(enum.next - 1)

CallbackRuns == enum.at = "enum" /\ enum'.next # enum.next
RefreshFails == enum.at = "enum" /\ enum'.at = "failed"

\* C27: a window about which a query fails is only not a match: the callback
\* posts nothing, leaves found alone, logs nothing and the enumeration goes
\* on with the next window; RefreshExplorerWindows gives up only when
\* EnumWindows itself fails, and then it logs the failure and neither
\* starts a message loop nor touches the store.
C27_QueryFailureSkips ==
    [][/\ (CallbackRuns /\ QueryFailed(desk[enum.next])) =>
            /\ enum' = [enum EXCEPT !.next = @ + 1]
            /\ logged' = logged
       /\ RefreshFails =>
            /\ used'.fails = used.fails + 1
            /\ logged' = Append(logged, [who |-> "refresh", err |-> "EnumWindows"])
            /\ ~enum'.armed /\ loops' = loops /\ data' = data
       /\ (enum.at = "enum" /\ enum'.at = "done") => enum.next = Len(desk) + 1]_vars

\* an earlier call failed in EnumWindows and was logged; this one went past
\* a window whose process could not be queried and refreshed the next one
C27_Witness ==
    /\ logged = <<[who |-> "refresh", err |-> "EnumWindows"]>>
    /\ enum.at = "done" /\ Len(desk) = 3
    /\ QueryFailed(desk[1]) /\ Passes(desk[2]) /\ QueryFailed(desk[3])
    /\ enum.posts = <<0, 1, 0>> /\ ~enum.armed

\* ---------------------------------------------------------------- C28
\* the events of this arming for which winEventProc started its goroutine
Matching(ev) == ev.objectId = 0 /\ IsFileExplorer(ev.hwnd)
Hits(g) == SelectSeq(calls[g], Matching)

\* C28: the focus watcher is single-shot: between the install of a hook and
\* the end of its message loop at most one focus event on a File Explorer
\* window is acted on, so a second File Explorer window that gains focus
\* during the same arming gets no refresh post from the hook.
C28_SingleShot == \A g \in LoopIds : Len(Hits(g)) <= 1

\* ---------------------------------------------------------------- C29
Asleep(h) == [hwnd |-> h, at |-> "sleep"]
Posted(h) == [hwnd |-> h, at |-> "posted"]
One(d) == SetToBag({d})
CallbackRan(g) == calls'[g] # calls[g] /\ calls'[g] # <<>>
RecordedThread == Get(data, "uint32", "threadId_winEvent")
GoroutineEnds(h) == BagIn(Posted(h), delayed) /\ delayed' = delayed (-) One(Posted(h))

\* C29: for a focus event on a File Explorer window winEventProc only
\* starts a goroutine and returns: the call posts nothing and the message
\* loop goes on; the goroutine posts the refresh to that window after its
\* sleep and only then posts WM_QUIT, to the thread whose id the store
\* holds under threadId_winEvent, and posts no WM_QUIT when the store holds
\* none.
C29_PostThenQuit ==
    [][/\ \A g \in LoopIds :
            (CallbackRan(g) /\ Matching(Head(evq[g]))) =>
                /\ delayed' = delayed (+) One(Asleep(Head(evq[g]).hwnd))
                /\ quitq' = quitq /\ loops' = loops /\ data' = data
       /\ \A h \in FocusWins :
            CopiesIn(Asleep(h), delayed') < CopiesIn(Asleep(h), delayed) =>
                /\ delayed' = (delayed (-) One(Asleep(h))) (+) One(Posted(h))
                /\ quitq' = quitq
       /\ \A g \in LoopIds :
            (quitq'[g] /\ ~quitq[g]) =>
                /\ \E h \in FocusWins : GoroutineEnds(h)
                /\ RecordedThread = [value |-> ThreadId(g), ok |-> TRUE]
       /\ ((\E h \in FocusWins : GoroutineEnds(h)) /\ ~RecordedThread.ok) =>
                quitq' = quitq]_vars

\* the goroutine of the only event has posted its refresh and then WM_QUIT
\* to the message loop, which has not received it yet
C29_Witness ==
    /\ calls[1] = <<[hwnd |-> 1, objectId |-> 0]>>
    /\ delayed = EmptyBag /\ quitq[1]
    /\ loops[1] = "l_getmsg" /\ loops[2] = "free"
    /\ RecordedThread = [value |-> ThreadId(1), ok |-> TRUE]

\* ---------------------------------------------------------------- C30
\* C30: winEventProc called for an event whose objectId is not 0, or whose
\* window fails the identity test, does nothing: no goroutine is started,
\* so no refresh and no WM_QUIT is posted, nothing is logged, the hook stays
\* installed, the message loop goes on and the store keeps both entries.
C30_IgnoredEvent ==
    [][\A g \in LoopIds :
          (CallbackRan(g) /\ ~Matching(Head(evq[g]))) =>
              /\ delayed' = delayed /\ quitq' = quitq
              /\ hooks' = hooks /\ loops' = loops
              /\ data' = data /\ logged' = logged]_vars

\* another window gained focus, then a child object of a File Explorer
\* window: the watcher is still armed, with both entries
C30_Witness ==
    /\ calls[1] = <<[hwnd |-> 2, objectId |-> 0], [hwnd |-> 1, objectId |-> 1]>>
    /\ loops[1] = "l_getmsg" /\ 1 \in hooks
    /\ delayed = EmptyBag /\ ~quitq[1]
    /\ HookEntry /\ ThreadEntry

\* ---------------------------------------------------------------- C31
ReadFailureHandled == pc["watcher"] = "w_err_read" /\ pc'["watcher"] # "w_err_read"

\* C31: a failed read of the status after a wake does not end the watcher:
\* the failure is logged, the status entry keeps its value and the watcher
\* goes back to RegNotifyChangeKeyValue for the next change.
C31_ReadFailureContinues ==
    [][ReadFailureHandled =>
          /\ Len(logged') = Len(logged) + 1
          /\ Status' = Status
          /\ pc'["watcher"] = "w_arm"]_vars

\* ---------------------------------------------------------------- C32
StartupCompletes == pc["main"] = "m_tray" /\ pc'["main"] = "loop"

\* C32: the startup read cannot race with the first toggles: at the moment
\* onReady enters its select loop, with no call of ToggleHidden under way
\* and no external edit made, the status entry is the registry value, also
\* when the hotkey was pressed after its goroutine was started and before
\* the startup read was stored.
C32_StartupNoRace ==
    [][(StartupCompletes /\ pc["hotkey"] = "idle" /\ used.edits = 0) =>
          Status' = Stored(reg')]_vars

\* ---------------------------------------------------------------- C33
QuitPosted(g) == quitq'[g] /\ ~quitq[g]

\* C33: WM_QUIT reaches a message loop only after the callback of that
\* loop's own hook has run for a File Explorer window: a goroutine started
\* by the callback of an earlier arming never posts its WM_QUIT to the
\* thread id a later arming recorded.
C33_QuitOwnArming ==
    [][\A g \in LoopIds : QuitPosted(g) => Hits(g) # <<>>]_vars

\* ---------------------------------------------------------------- C34
Installing == \E g \in LoopIds : loops[g] \in {"l_install", "l_sethook"}
LoopRuns(g) == loops[g] \in {"l_settid", "l_getmsg", "l_err_getmsg", "l_unhook"}

\* C34: no hook is orphaned: while the process runs, whenever the store
\* holds no hook_winEvent entry and no WatchMessageLoop goroutine is between
\* its start and its state.Set of the hook, no WinEvent hook is installed
\* and no message loop is running.
C34_NoOrphanHook ==
    (running /\ ~HookEntry /\ ~Installing) =>
        /\ hooks = {}
        /\ \A g \in LoopIds : ~LoopRuns(g)

\* ---------------------------------------------------------------- C35
InRefresh == pc["watcher"] \in {"w_enum", "w_check"}
RefreshReturns == InRefresh /\ pc'["watcher"] \notin {"w_enum", "w_check"}
LoopSteps == \E g \in LoopIds : loops'[g] # loops[g] /\ loops[g] # "free"

\* C35: arming does not block the registry watcher: a call of
\* RefreshExplorerWindows that leaves its found == 0 branch has returned to
\* the watcher's loop with l.mu released, whether it started a message loop
\* or not; l.mu is held only inside the call; and the message loop runs in
\* its own goroutine, whose steps neither move the watcher nor touch l.mu.
C35_ArmingReturns ==
    [][/\ (pc["watcher"] = "w_check" /\ pc'["watcher"] # "w_check") => RefreshReturns
       /\ RefreshReturns => (pc'["watcher"] = "w_arm" /\ mu' = "free")
       /\ mu' # "free" => pc'["watcher"] = "w_check"
       /\ LoopSteps => (pc'["watcher"] = pc["watcher"] /\ mu' = mu)]_vars

\* the focus watcher is Armed and the registry watcher has woken for a
\* later external edit and read it
C35_Witness ==
    /\ hooks = {1} /\ loops[1] = "l_getmsg" /\ loops[2] = "free" /\ HookEntry
    /\ pc["watcher"] = "w_set" /\ seen # NoWake /\ used.edits = 2
    /\ mu = "free"

\* ---------------------------------------------------------------- C36
WatcherSends == pc["watcher"] \in WErrPcs
LoopSends(g) == loops[g] \in {"l_err_install", "l_err_getmsg"}
Received == \/ WatcherSends /\ pc'["watcher"] \notin WErrPcs
            \/ \E g \in LoopIds : LoopSends(g) /\ ~LoopSends(g)'

\* C36: every error sent on ErrCh is received and logged by the select loop
\* of onReady while the process runs; the registry watcher does not hold
\* l.mu while it is blocked in its send (the message loop never takes it);
\* and after a failed GetMessage the cleanup of the message loop runs: its
\* hook is removed and the goroutine ends.
C36_ErrorsReceived ==
    /\ [](WatcherSends => mu = "free")
    /\ [][Received => Len(logged') = Len(logged) + 1]_vars
    /\ (WatcherSends ~> (pc["watcher"] = "done" \/ ~running))
    /\ \A g \in LoopIds :
          /\ LoopSends(g) ~> (~LoopSends(g) \/ ~running)
          /\ (loops[g] = "l_err_getmsg") ~> ((loops[g] = "free" /\ g \notin hooks) \/ ~running)

\* GetMessage failed, the error was logged and the cleanup has run
C36_Witness ==
    /\ logged = <<[who |-> "loop", err |-> "GetMessage"]>>
    /\ loops = [g \in LoopIds |-> "free"] /\ hooks = {}
    /\ ~HookEntry /\ ~ThreadEntry

\* ---------------------------------------------------------------- C37
\* C37: ToggleHidden writes only the two statuses: Visible (1) when the
\* value it read is Hidden (2) and Hidden (2) for every other value it
\* read, also one that is neither 1 nor 2; on a successful return the
\* status entry is the status it wrote, and so is the registry value when
\* nobody else wrote it meanwhile.
C37_WritesEnumerated ==
    [][\A t \in Togglers :
         /\ Writes(t) =>
              /\ reg' = IF val[t] = statusHidden THEN statusVisible ELSE statusHidden
              /\ reg' \in {statusVisible, statusHidden}
         /\ Returns(t) =>
              /\ Status'.ok /\ Status'.value \in {statusVisible, statusHidden}
              /\ Status'.value = IF val[t] = statusHidden THEN statusVisible
                                 ELSE statusHidden
              /\ clean[t] => reg' = Status'.value]_vars

\* the registry held 0 at startup; one toggle has made the value and the
\* status entry Hidden
C37_Witness ==
    /\ AllHome
    /\ chain = <<0, statusHidden>>
    /\ reg = statusHidden
    /\ Status = Stored(statusHidden)

\* ---------------------------------------------------------------- C38
CallSteps == enum' # enum /\ enum.at = "enum"

\* C38: a call of RefreshExplorerWindows that has found a File Explorer
\* window leaves the focus watcher alone: none of its steps starts a
\* message loop, installs or removes a hook, posts WM_QUIT, or writes or
\* deletes the hook_winEvent and threadId_winEvent entries, and it ends
\* without arming.
C38_FoundLeavesWatcher ==
    [][(CallSteps /\ enum'.found # 0 /\ enum'.at # "failed") =>
          /\ loops' = loops /\ hooks' = hooks /\ quitq' = quitq
          /\ data' = data
          /\ ~enum'.armed]_vars

\* a call has ended with a window found while a hook was installed and
\* recorded: the message loop still runs and both entries are there
C38_Witness ==
    /\ enum.at = "done" /\ enum.found = 1 /\ ~enum.armed
    /\ hooks = {1} /\ loops[1] = "l_getmsg" /\ loops[2] = "free"
    /\ HookEntry /\ ThreadEntry
====
